---------------------------- MODULE Spec2Model ----------------------------
(***************************************************************************)
(* A state-machine model of torch4keras' Trainer (src/torch4keras/         *)
(* trainer.py): the fit run loop with its callback events, the batch       *)
(* fetch, gradient accumulation, the parameter update with the mixed       *)
(* precision scaler and the schedulers, and the step-resume record.        *)
(*                                                                         *)
(* One trainer is modelled.  Its attributes keep the names of the source.  *)
(* The arguments of compile() and fit(), the length of the dataloader and  *)
(* the behaviour of the user's callbacks are inputs, drawn in Init.        *)
(***************************************************************************)
EXTENDS Integers, Sequences, FiniteSets, TLC

VARIABLES
    \* ---- Trainer attributes (Trainer.initialize, compile, _prepare_inputs)
    global_step, local_step, batch_step, epoch,
    steps_per_epoch, total_steps, epochs, callbacks,
    resume_step, resume_epoch,
    stop_training,
    grad_accumulation_steps, mixed_precision_mode, scheduler, clip_grad_norm,
    smooth_metrics_config, scale_before_step,
    \* ---- collaborators: dataloader iterator, GradScaler, optimizer,
    \*      schedulers, the step-resume file
    dataloader_len, has_len, iter_pos, train_X,
    dist_sampler, sampler_epoch,
    scaler, opt_steps, sched_steps,
    steps_file,
    \* ---- the frame of the running fit call (locals of Trainer._fit)
    pc, epoch_i, local_i, resume_step_l, micro, logs,
    loss, loss_detail, tr_loss, tr_loss_detail,
    \* ---- arguments of fit and the user's callbacks
    arg_epochs, arg_steps, save_ckpt_when_error, user_callbacks, criterion,
    verbose, mail_receivers_when_error, save_batch_path_when_error,
    \* ---- observers (history of what the run did; never read by the run)
    events, prev_events, fits, fresh, loaded, save_info,
    n_fetch, n_forward, n_update, raw_loss, raw_detail, last_update,
    broke_early, last_op, saver_done, fit_fresh,
    ops, dispatched, stop_info, error, raised, n_rebuild, attempted,
    logs_id, log_seen,
    registered, fetch_log, prev_fetch_log, pass_log, set_epoch_log,
    \* ---- checkpoint files and the components they hold
    ck_mem, ck_disk, ck_scheduler, ck_list, ck_fitted, ck_progress, ck_call, ck_ops,
    \* ---- the registry of metrics built by compile
    metrics, metrics_arg, compile_raised,
    \* ---- the DeepSpeed configuration being resolved
    ds_config, ds_nodes, ds_stage, ds_hidden, mismatches, ds_call,
    \* ---- the worker processes of a TrainerDDP run
    master_rank, ddp_callbacks, ddp_disabled, ddp_epochs, ddp_steps, proc

trainerVars == <<global_step, local_step, batch_step, epoch, steps_per_epoch,
                 total_steps, epochs, callbacks, resume_step, resume_epoch,
                 stop_training, scale_before_step>>
compileVars == <<grad_accumulation_steps, mixed_precision_mode, scheduler,
                 clip_grad_norm, smooth_metrics_config>>
collabVars  == <<dataloader_len, has_len, iter_pos, train_X, dist_sampler,
                 sampler_epoch, scaler, opt_steps, sched_steps, steps_file>>
frameVars   == <<pc, epoch_i, local_i, resume_step_l, micro, logs,
                 loss, loss_detail, tr_loss, tr_loss_detail>>
argVars     == <<arg_epochs, arg_steps, save_ckpt_when_error, user_callbacks, criterion,
                 verbose, mail_receivers_when_error, save_batch_path_when_error>>
obsVars     == <<events, prev_events, fits, fresh, loaded, save_info,
                 n_fetch, n_forward, n_update, raw_loss, raw_detail, last_update,
                 broke_early, last_op, saver_done, fit_fresh,
                 ops, dispatched, stop_info, error, raised, n_rebuild, attempted,
                 logs_id, log_seen,
                 registered, fetch_log, prev_fetch_log, pass_log, set_epoch_log>>
fitVars == <<trainerVars, compileVars, collabVars, frameVars, argVars, obsVars>>
ckptVars == <<ck_mem, ck_disk, ck_scheduler, ck_list, ck_fitted, ck_progress, ck_call,
              ck_ops>>
regVars == <<metrics, metrics_arg, compile_raised>>
dsVars == <<ds_config, ds_nodes, ds_stage, ds_hidden, mismatches, ds_call>>
ddpVars == <<master_rank, ddp_callbacks, ddp_disabled, ddp_epochs, ddp_steps, proc>>
auxVars == <<ckptVars, regVars, dsVars, ddpVars>>
vars == <<fitVars, auxVars>>

----------------------------------------------------------------------------
(* Bounds of the model. *)
MaxEpochs == 2
MaxSteps == 3
MaxAccum == 2
MaxLen == 3
MaxLoss == 2
MaxFits == 2
WorldSize == 2          \* worker processes of a distributed run
MaxMetrics == 3         \* longest metrics list handed to compile
MaxCkptOps == 3         \* calls made on one trainer in the checkpoint runs
GrowthInterval == 2     \* clean steps before the scaler grows the scale
ListSchedulers == 2     \* length of the scheduler list when a list is compiled

(* Program constants. *)
NoneInt == -1        \* stands for Python's None in an integer attribute
InitScale == 65536   \* GradScaler()'s default init_scale

----------------------------------------------------------------------------
(* Exact rational arithmetic for the loss values: <<numerator, denominator>>,
   kept in lowest terms.  Python divides floats; the model divides exactly. *)
RECURSIVE GCD(_, _)
GCD(a, b) == IF b = 0 THEN a ELSE GCD(b, a % b)

Rat(n) == <<n, 1>>

RatNorm(r) ==
    LET g == GCD(r[1], r[2])
    IN  IF g = 0 THEN <<0, 1>> ELSE <<r[1] \div g, r[2] \div g>>

RatAdd(a, b) == RatNorm(<<a[1] * b[2] + b[1] * a[2], a[2] * b[2]>>)

RatDiv(a, n) == RatNorm(<<a[1], a[2] * n>>)

RatLess(a, b) == a[1] * b[2] < b[1] * a[2]

RatEq(a, b) == a[1] * b[2] = b[1] * a[2]

----------------------------------------------------------------------------
(* Pure computations of the run loop and the step engine. *)

\* a global step counted from 1
\* a step counter that starts again at 0 in every epoch
GlobalStepPerEpoch(e, spe, l) == l

GlobalStepOffByOne(e, spe, l) == e * spe + l + 1

\* Trainer._fit: self.global_step = self.epoch * self.steps_per_epoch + self.local_step
GlobalStepOf(e, spe, l) == e * spe + l

\* a loop that runs once too often: i <= n in place of i < n
RangeHasInclusive(i, n) == i <= n

\* for i in range(start, n): the loop body runs for i while i < n
RangeHas(i, n) == i < n

\* a step loop that is left as soon as a callback has asked to stop
AfterBatchEndBreaks(stop, next_step, n_steps) ==
    IF stop \/ ~RangeHas(next_step, n_steps) THEN "epoch_end" ELSE "batch_begin"

\* Trainer._fit after on_batch_end: the step loop goes on while it has steps
\* left; stop_training is not read inside the step loop
AfterBatchEnd(stop, next_step, n_steps) ==
    IF RangeHas(next_step, n_steps) THEN "batch_begin" ELSE "epoch_end"

\* an epoch loop that never reads stop_training
AfterEpochEndIgnoresStop(stop, next_epoch, n_epochs) ==
    IF ~RangeHas(next_epoch, n_epochs) THEN "train_end" ELSE "epoch_begin"

\* a stop that returns from inside the epoch loop, skipping on_train_end
AfterEpochEndReturns(stop, next_epoch, n_epochs) ==
    IF stop THEN "done"
    ELSE IF ~(next_epoch < n_epochs) THEN "train_end" ELSE "epoch_begin"

\* Trainer._fit after on_epoch_end: `if callback_trainer.stop_training: break`,
\* else the epoch loop goes on while it has epochs left; on_train_end follows the loop
AfterEpochEnd(stop, next_epoch, n_epochs) ==
    IF stop \/ ~RangeHas(next_epoch, n_epochs) THEN "train_end" ELSE "epoch_begin"

\* the resume step used as the start of every epoch
LoopStartEveryEpoch(e, re, rs) == rs

\* Trainer._fit: resume_step = self.resume_step if epoch==self.resume_epoch else 0
LoopStart(e, re, rs) == IF e = re THEN rs ELSE 0

\* a record that points at the step just run instead of the next one
StepParamsNoAdvance(l, e, spe) ==
    [resume_step  |-> l % spe,
     resume_epoch |-> e + (l \div spe)]

\* a record without the wrap into the next epoch
StepParamsNoWrap(l, e, spe) ==
    [resume_step  |-> l + 1,
     resume_epoch |-> e]

\* Trainer.save_steps_params: the record written to the step-resume file
StepParams(l, e, spe) ==
    [resume_step  |-> (l + 1) % spe,
     resume_epoch |-> e + ((l + 1) \div spe)]

\* a loss that is not divided by the accumulation factor
NormLossUnscaled(l, acc) == Rat(l)

\* Trainer.train_step: loss / grad_accumulation_steps if grad_accumulation_steps > 1
NormLoss(l, acc) == IF acc > 1 THEN RatDiv(Rat(l), acc) ELSE Rat(l)

\* Trainer.train_step: every loss_detail value is divided by grad_accumulation_steps
NormDetail(v, acc) == RatDiv(Rat(v), acc)

\* `if self.mixed_precision_mode:` -- False is the only falsy mode
UsesScaler(mode) == mode # "off"

\* a step that never skips the scheduler
SkipSchedulerNever(scale_after, scale_before) == FALSE

\* Trainer.step: skip_scheduler = self.scaler.get_scale() != self.scale_before_step
SkipScheduler(scale_after, scale_before) == ~RatEq(scale_after, scale_before)

\* only the first scheduler of a list is stepped
StepSchedulersFirstOnly(ss) == [i \in DOMAIN ss |-> IF i = 1 THEN ss[i] + 1 ELSE ss[i]]

\* Trainer.step: every configured scheduler is stepped once
StepSchedulers(ss) == [i \in DOMAIN ss |-> ss[i] + 1]

\* GradScaler.step: the optimizer update is applied unless inf/nan gradients were found
ScalerApplies(found_inf) == ~found_inf

\* GradScaler.update: back off on inf/nan, grow after GrowthInterval clean steps
ScalerUpdate(sc, found_inf) ==
    IF found_inf
    THEN [scale |-> RatDiv(sc.scale, 2), growth_tracker |-> 0]
    ELSE IF sc.growth_tracker + 1 = GrowthInterval
         THEN [scale |-> RatNorm(<<sc.scale[1] * 2, sc.scale[2]>>), growth_tracker |-> 0]
         ELSE [scale |-> sc.scale, growth_tracker |-> sc.growth_tracker + 1]

NewScaler == [scale |-> Rat(InitScale), growth_tracker |-> 0]

NewSchedulers(kind) ==
    IF kind = "none" THEN <<>>
    ELSE IF kind = "single" THEN <<0>>
    ELSE [i \in 1..ListSchedulers |-> 0]

\* Trainer._log_init: a fresh record holding the optimizer's learning rate
LogInit(ss) == [k \in {"lr"} |-> IF Len(ss) > 0 THEN ss[1] ELSE 0]

\* logs.update(dict({'loss': tr_loss}, **tr_loss_detail))
LogUpdate(lg, tl, td) ==
    [k \in DOMAIN lg \cup {"loss"} \cup DOMAIN td |->
        IF k = "loss" THEN tl
        ELSE IF k \in DOMAIN td THEN td[k]
        ELSE lg[k]]

\* tr_loss_detail[k] = tr_loss_detail.get(k, 0) + v
AddDetail(td, ld) ==
    [k \in DOMAIN td \cup DOMAIN ld |->
        IF k \in DOMAIN ld
        THEN RatAdd(IF k \in DOMAIN td THEN td[k] ELSE Rat(0), ld[k])
        ELSE td[k]]

EmptyMap == [k \in {} |-> 0]

StepLogsReused(prev, ss) == IF DOMAIN prev = {} THEN LogInit(ss) ELSE prev

\* top of the step loop: logs = self._log_init() binds a new dict, whatever
\* the dict of the previous step holds
StepLogs(prev, ss) == LogInit(ss)

\* train_step, "整理loss": what is left of the criterion's result once the
\* loss is taken out: nothing of a tensor, the other entries of a dict, the
\* elements after the first of a tuple or list, named loss1, loss2, ...
CriterionDetail(shape, a) ==
    IF shape = "dict" THEN [k \in {"aux"} |-> a]
    ELSE IF shape = "tuple" THEN [k \in {"loss1"} |-> a]
    ELSE EmptyMap

Has(seq, x) == \E i \in DOMAIN seq : seq[i] = x

\* a user callback whose on_batch_begin and on_batch_end write logs['tag']
\* into the dict they are handed
Tagged(lg, cbs) ==
    IF Has(cbs, "tag")
    THEN [k \in DOMAIN lg \cup {"tag"} |-> IF k = "tag" THEN 1 ELSE lg[k]]
    ELSE lg

\* what a batch hook was handed: the dict (by identity), its keys on entry
\* and its keys when the callbacks returned
Seen(name, id, given, left) ==
    [name |-> name, id |-> id, given |-> DOMAIN given, left |-> DOMAIN left]

\* isinstance(callback, SmoothMetricsCallback)
IsSmooth(c) == c \in {"smooth_a", "smooth_b"}

\* a dispatch list that keeps the user's list as given, behind the progress bar
PrepareCallbacksAsGiven(cbs, smooth, verb) ==
    (IF verb THEN <<"progbar">> ELSE <<>>) \o cbs \o <<"history">>

\* Trainer._prepare_callbacks: the list handed to CallbackList.  A smoothing
\* callback of the user (the first one) or else the one built from
\* smooth_metrics_config goes first, then the progress bar, then the user's
\* callbacks without the smoothing ones, then History.
PrepareCallbacks(cbs, smooth, verb) ==
    LET user_smooth == SelectSeq(cbs, IsSmooth)
        callbacks_  == IF Len(user_smooth) > 0 THEN <<user_smooth[1]>>
                       ELSE IF smooth THEN <<"smooth_default">>
                       ELSE <<>>
        others      == IF Len(user_smooth) > 0
                       THEN SelectSeq(cbs, LAMBDA c : ~IsSmooth(c))
                       ELSE cbs
    IN  callbacks_ \o (IF verb THEN <<"progbar">> ELSE <<>>) \o others \o <<"history">>

\* Trainer._prepare_inputs: math.ceil(len(train_dataloader) // self.grad_accumulation_steps);
\* `//` already yields an integer, which math.ceil returns unchanged
DerivedSteps(len, acc) == len \div acc

\* an iterator that yields one batch more than the dataloader holds
ExhaustedLate(pos, len) == pos > len

\* an iterator that never ends
ExhaustedNever(pos, len) == FALSE

\* next(self.train_dataloader_iter) raises StopIteration
Exhausted(pos, len) == pos >= len

\* Trainer.train_step: forward under the precision context, the loss is
\* divided by the accumulation factor, loss_backward
TrainStepOps == <<"forward", "normalize", "backward">>

\* `for scheduler in self.scheduler: scheduler.step()`, or the single scheduler
SchedulerOrder(ss) == [i \in DOMAIN ss |-> i]

\* a step that zeroes the gradients before the optimizer has used them
StepOpsZeroFirst(scaled, clip, nsched) ==
    (IF scaled THEN <<"unscale">> ELSE <<>>)
    \o (IF clip THEN <<"clip">> ELSE <<>>)
    \o <<"zero_grad">>
    \o <<"optimizer_step">>
    \o (IF scaled THEN <<"scaler_update">> ELSE <<>>)
    \o [i \in 1..nsched |-> "scheduler_step"]

\* Trainer.step: the calls it makes, in order
StepOps(scaled, clip, nsched) ==
    (IF scaled THEN <<"unscale">> ELSE <<>>)
    \o (IF clip THEN <<"clip">> ELSE <<>>)
    \o <<"optimizer_step">>
    \o (IF scaled THEN <<"scaler_update">> ELSE <<>>)
    \o <<"zero_grad">>
    \o [i \in 1..nsched |-> "scheduler_step"]

Idle == {"idle", "done", "failed"}

\* the flag as a fit that does not touch it would leave it
ClearStopKeeps(stop) == stop

\* _prepare_callbacks: callback_trainer.stop_training = False
ClearStop(stop) == FALSE

\* Trainer.initialize: self.loss2metrics = True
loss2metrics == TRUE

\* _fit: if self.verbose and self.loss2metrics and (self.global_step == resume_step),
\* the condition under which progbarlogger.add_metrics receives the keys of the
\* loss detail; resume_step is the local variable of the epoch loop
AddsLossMetrics(verb, gs, rs) == verb /\ loss2metrics /\ gs = rs

\* _prepare_nextbatch: sampler.set_epoch(self.epoch) when the dataloader's
\* sampler is a DistributedSampler; the epoch the sampler holds afterwards
SetEpoch(is_dist, held, ep) == IF is_dist THEN ep ELSE held

\* one batch taken from the iterator, as the step that takes it sees it
Fetch(gs, ep, ls, k, pos) ==
    [global_step |-> gs, epoch |-> ep, local_step |-> ls, micro |-> k, pos |-> pos]

NoFile == [present |-> FALSE]
NoUpdate == [valid |-> FALSE]
NoLoad == [valid |-> FALSE]
NoStop == [valid |-> FALSE]

----------------------------------------------------------------------------
(* The inputs: the arguments of compile() and fit(), the dataloader and the
   user's callbacks.  Families of inputs keep the state space small: the run
   loop with stopping and checkpointing callbacks, batch fetching with
   gradient accumulation over dataloaders of every length, the loss values,
   the precision policies with the scheduler variants, the callback lists,
   fit without steps_per_epoch, and the runs that raise. *)
LoopInputs ==
    [epochs : 1..MaxEpochs, steps : 1..MaxSteps, accum : {1}, len : {MaxLen},
     mode : {"off"}, sched : {"none"},
     cbs : {<<>>, <<"stop">>, <<"save">>, <<"tag">>},
     shape : {"tensor"}, losses : {{1}}, ckpt : {FALSE},
     clip : {FALSE}, smooth : {TRUE}, verbose : {FALSE}, has_len : {TRUE},
     mail : {FALSE}, dump : {FALSE}, sampler : {FALSE}]

FetchInputs ==
    { inp \in [epochs : 1..MaxEpochs, steps : 1..MaxSteps, accum : 1..MaxAccum,
               len : 0..MaxLen, mode : {"off"}, sched : {"none"}, cbs : {<<>>},
               shape : {"tensor"}, losses : {{1}}, ckpt : BOOLEAN,
               clip : {FALSE}, smooth : {TRUE}, verbose : {FALSE}, has_len : {TRUE},
               mail : {FALSE}, dump : {FALSE}, sampler : BOOLEAN] :
        inp.ckpt => inp.len = 0 }

LossInputs ==
    [epochs : {1}, steps : {1, 2}, accum : 1..MaxAccum, len : {MaxLen},
     mode : {"off"}, sched : {"none"}, cbs : {<<>>},
     shape : {"tensor", "dict", "tuple"}, losses : {1..MaxLoss}, ckpt : {FALSE},
     clip : {FALSE}, smooth : {TRUE}, verbose : {FALSE}, has_len : {TRUE},
     mail : {FALSE}, dump : {FALSE}, sampler : {FALSE}]

AmpInputs ==
    [epochs : {1}, steps : 1..MaxSteps, accum : {1, MaxAccum}, len : {MaxLen},
     mode : {"off", "fp16", "bf16"}, sched : {"none", "single", "list"}, cbs : {<<>>},
     shape : {"tensor"}, losses : {{1}}, ckpt : {FALSE},
     clip : BOOLEAN, smooth : {TRUE}, verbose : {FALSE}, has_len : {TRUE},
     mail : {FALSE}, dump : {FALSE}, sampler : {FALSE}]

\* the user's callback lists: inert callbacks, smoothing callbacks, a stopper
CallbackLists ==
    {<<"user1", "user2">>, <<"smooth_a", "user1", "user2">>,
     <<"user1", "smooth_a", "user2">>, <<"user1", "smooth_a", "smooth_b">>,
     <<"user1", "stop">>}

CallbackInputs ==
    [epochs : {1}, steps : {1}, accum : {1}, len : {MaxLen},
     mode : {"off"}, sched : {"none"}, cbs : CallbackLists,
     shape : {"tensor"}, losses : {{1}}, ckpt : {FALSE},
     clip : {FALSE}, smooth : BOOLEAN, verbose : BOOLEAN, has_len : {TRUE},
     mail : {FALSE}, dump : {FALSE}, sampler : {FALSE}]

\* the progress bar on, over runs that are checkpointed and resumed
ProgbarInputs ==
    [epochs : {MaxEpochs}, steps : 1..2, accum : {1}, len : {MaxLen},
     mode : {"off"}, sched : {"none"}, cbs : {<<"save">>},
     shape : {"dict"}, losses : {{1}}, ckpt : {FALSE},
     clip : {FALSE}, smooth : {TRUE}, verbose : {TRUE}, has_len : {TRUE},
     mail : {FALSE}, dump : {FALSE}, sampler : {FALSE}]

\* fit called without steps_per_epoch, over dataloaders with and without __len__
DeriveInputs ==
    [epochs : 1..MaxEpochs, steps : {NoneInt}, accum : 1..MaxAccum, len : 0..MaxLen,
     mode : {"off"}, sched : {"none"}, cbs : {<<>>},
     shape : {"tensor"}, losses : {{1}}, ckpt : {FALSE},
     clip : {FALSE}, smooth : {TRUE}, verbose : {FALSE}, has_len : BOOLEAN,
     mail : {FALSE}, dump : {FALSE}, sampler : {FALSE}]

\* runs that raise (no steps and no length, an empty dataloader, a loss of
\* an unsupported type) under every configuration of the diagnostics
ErrorInputs ==
    [epochs : {1}, steps : {NoneInt, 1}, accum : {1}, len : {0, 1},
     mode : {"off"}, sched : {"none"}, cbs : {<<>>},
     shape : {"tensor", "invalid"}, losses : {{1}}, ckpt : BOOLEAN,
     clip : {FALSE}, smooth : {TRUE}, verbose : {FALSE}, has_len : BOOLEAN,
     mail : BOOLEAN, dump : BOOLEAN, sampler : {FALSE}]

Inputs ==
    LoopInputs \cup FetchInputs \cup LossInputs \cup AmpInputs
    \cup CallbackInputs \cup ProgbarInputs \cup DeriveInputs \cup ErrorInputs

----------------------------------------------------------------------------
(* Checkpoints.  save_to_checkpoint and resume_from_checkpoint handle four
   artifacts in a fixed order.  A component's state is a version number; a
   file holds the version it was written from, or Absent. *)
Absent == -1

Artifacts == {"model", "optimizer", "scheduler", "steps_params"}

ArtifactOrder == <<"model", "optimizer", "scheduler", "steps_params">>

\* the files a call can name: the default file of an artifact under save_dir,
\* and one file elsewhere
Files == Artifacts \X {"default", "other"}

\* the arguments of a call: save_dir given or not, and at most one explicit
\* path, which names either a file elsewhere or the default file itself
CkptArgs ==
    { a \in [save_dir : BOOLEAN, explicit : Artifacts \cup {"none"},
             where : {"other", "in_dir"}] :
        a.explicit = "none" => a.where = "other" }

ResolveDefaultOnly(a, args) == <<a, "default">>

\* X_path = X_path or os.path.join(save_dir, 'X.pt')
Resolve(a, args) ==
    IF args.explicit = a /\ args.where = "other" THEN <<a, "other">>
    ELSE <<a, "default">>

\* if X_path or save_dir  (and, for the scheduler, self.scheduler is not None)
Selected(a, args, has_scheduler) ==
    /\ args.explicit = a \/ args.save_dir
    /\ a = "scheduler" => has_scheduler

\* what save_to_checkpoint writes for an artifact: the component's state, and
\* for steps_params the resume point computed from the trainer's progress
Content(a, mem, progress) == IF a = "steps_params" THEN progress ELSE mem[a]

\* self.scheduler.state_dict() and self.scheduler.load_state_dict(): a list of
\* schedulers, which Trainer.step accepts, has neither method
HasStateDict(is_list) == ~is_list

\* save_to_checkpoint: the selected artifacts are written in order; the
\* scheduler's state_dict() raises when self.scheduler is a list, and
\* save_steps_params, the last one, raises when steps_per_epoch is still None
SaveRun(args, mem, disk, has_scheduler, is_list, fitted, progress) ==
    LET sel == {a \in Artifacts : Selected(a, args, has_scheduler)}
        no_state == "scheduler" \in sel /\ ~HasStateDict(is_list)
        fails == "steps_params" \in sel /\ ~fitted
        wr == IF no_state THEN sel \cap {"model", "optimizer"}
              ELSE {a \in sel : a = "steps_params" => fitted}
    IN  [disk |-> [f \in Files |->
                      IF \E a \in wr : f = Resolve(a, args)
                      THEN Content(f[1], mem, progress) ELSE disk[f]],
         mem |-> mem,
         touched |-> {Resolve(a, args) : a \in wr},
         outcome |-> IF no_state THEN "AttributeError"
                     ELSE IF fails THEN "TypeError" ELSE "ok"]

\* resume_from_checkpoint from the i-th artifact on: torch.load of a file
\* that does not exist raises FileNotFoundError and ends the call, and so
\* does load_state_dict() on a list of schedulers, after the file was read
RECURSIVE ResumeRun(_, _, _, _, _, _, _)
ResumeRun(i, args, mem, disk, has_scheduler, is_list, touched) ==
    IF i > Len(ArtifactOrder)
    THEN [disk |-> disk, mem |-> mem, touched |-> touched, outcome |-> "ok"]
    ELSE LET a == ArtifactOrder[i]
             f == Resolve(a, args)
         IN  IF ~Selected(a, args, has_scheduler)
             THEN ResumeRun(i + 1, args, mem, disk, has_scheduler, is_list, touched)
             ELSE IF disk[f] = Absent
             THEN [disk |-> disk, mem |-> mem, touched |-> touched \cup {f},
                   outcome |-> "FileNotFoundError"]
             ELSE IF a = "scheduler" /\ ~HasStateDict(is_list)
             THEN [disk |-> disk, mem |-> mem, touched |-> touched \cup {f},
                   outcome |-> "AttributeError"]
             ELSE ResumeRun(i + 1, args, [mem EXCEPT ![a] = disk[f]], disk,
                            has_scheduler, is_list, touched \cup {f})

NoCall == [op |-> "none"]

CkptIdle ==
    /\ ck_mem = [a \in Artifacts |-> 0]
    /\ ck_disk = [f \in Files |-> Absent]
    /\ ck_scheduler = TRUE
    /\ ck_list = FALSE
    /\ ck_fitted = FALSE
    /\ ck_progress = 0
    /\ ck_call = NoCall
    /\ ck_ops = 0


----------------------------------------------------------------------------
(* compile(metrics=...).  self.metrics is an OrderedDict, modelled as the
   sequence of its items <<key, function>>; "none" stands for None. *)
Item(k, f) == <<k, f>>

\* what can stand in the metrics argument: a string, a dict, a function,
\* something else
MetricEntries ==
    { [kind |-> "str", name |-> "accuracy"],
      [kind |-> "str", name |-> "loss"],
      [kind |-> "dict", items |-> <<Item("loss", "f")>>],
      [kind |-> "dict", items |-> <<Item("f1", "f"), Item("accuracy", "g")>>],
      [kind |-> "func", name |-> "h"],
      [kind |-> "other"] }

RECURSIVE ListsUpTo(_, _)
ListsUpTo(S, n) ==
    IF n = 0 THEN {<<>>}
    ELSE LET shorter == ListsUpTo(S, n - 1)
         IN  shorter \cup {Append(l, e) : l \in shorter, e \in S}

\* metrics=None, one entry that is not a list, or a list of entries
MetricsArgs ==
    {[form |-> "none", items |-> <<>>]}
    \cup {[form |-> "single", items |-> <<e>>] : e \in {x \in MetricEntries : x.kind # "other"}}
    \cup {[form |-> "list", items |-> l] : l \in ListsUpTo(MetricEntries, MaxMetrics)}

\* od[k] = f on an OrderedDict: a key that is there keeps its place
OdSet(od, k, f) ==
    IF \E i \in DOMAIN od : od[i][1] = k
    THEN [i \in DOMAIN od |-> IF od[i][1] = k THEN Item(k, f) ELSE od[i]]
    ELSE Append(od, Item(k, f))

RECURSIVE OdUpdate(_, _)
OdUpdate(od, items) ==
    IF items = <<>> THEN od
    ELSE OdUpdate(OdSet(od, Head(items)[1], Head(items)[2]), Tail(items))

\* the body of compile's loop over the metrics
Register(od, e) ==
    IF e.kind = "str" /\ e.name # "loss" THEN [od |-> OdSet(od, e.name, "none"), raised |-> FALSE]
    ELSE IF e.kind = "dict" THEN [od |-> OdUpdate(od, e.items), raised |-> FALSE]
    ELSE IF e.kind = "func" THEN [od |-> OdSet(od, e.name, e.name), raised |-> FALSE]
    ELSE [od |-> od, raised |-> TRUE]       \* raise TypeError

RECURSIVE RegisterAll(_, _)
RegisterAll(od, items) ==
    IF items = <<>> THEN [od |-> od, raised |-> FALSE]
    ELSE LET r == Register(od, Head(items))
         IN  IF r.raised THEN r ELSE RegisterAll(r.od, Tail(items))

NewMetrics == <<Item("loss", "none")>>

RegIdle ==
    /\ metrics = NewMetrics
    /\ metrics_arg = [form |-> "none", items |-> <<>>]
    /\ compile_raised = FALSE


----------------------------------------------------------------------------
(* DeepSpeedArgs: the engine's configuration is a tree of JSON objects.  A
   dotted key is <<path of the parent node, name>>; ds_nodes is the set of
   parent nodes the file holds (the root always is there).  A value is
   "auto", "none" (no entry), "local" (equal to the value the trainer
   resolved for that key) or "other" (a configured value that differs). *)
Root == "root"

TopKeys ==
    {<<Root, k>> : k \in {"train_micro_batch_size_per_gpu", "gradient_accumulation_steps",
                          "train_batch_size", "gradient_clipping"}}

OptimizerKeys == {<<"optimizer.params", k>> : k \in {"lr", "betas", "eps", "weight_decay"}}

SchedulerKeys ==
    {<<"scheduler.params", k>> : k \in {"warmup_min_lr", "warmup_max_lr",
                                        "total_num_steps", "warmup_num_steps"}}

PrecisionKeys ==
    {<<"fp16", "enabled">>, <<"amp", "enabled">>, <<"amp", "opt_level">>, <<"bf16", "enabled">>}

HiddenSizeKeys ==
    {<<"zero_optimization", k>> : k \in {"reduce_bucket_size", "stage3_prefetch_bucket_size",
                                         "stage3_param_persistence_threshold"}}

DsKeys == TopKeys \cup OptimizerKeys \cup SchedulerKeys \cup PrecisionKeys \cup HiddenSizeKeys

DsParents == {k[1] : k \in DsKeys} \ {Root}

\* find_config_node: None when a node on the path is missing
FindConfigNode(nodes, key) == key[1] = Root \/ key[1] \in nodes

\* get_value
GetValue(cfg, nodes, key) == IF FindConfigNode(nodes, key) THEN cfg[key] ELSE "none"

Mismatch(key, ds_val, val) == [ds_name |-> key, ds_value |-> ds_val, b4t_value |-> val]

FillMatchAlwaysChecks(c, key, val, must_match) ==
    IF ~FindConfigNode(c.nodes, key) THEN c
    ELSE IF c.cfg[key] = "auto" THEN [c EXCEPT !.cfg[key] = val]
    ELSE IF c.cfg[key] # "none" /\ c.cfg[key] # val
    THEN [c EXCEPT !.mismatches = Append(@, Mismatch(key, c.cfg[key], val))]
    ELSE c

\* fill_match on c = [cfg, nodes, mismatches]
FillMatch(c, key, val, must_match) ==
    IF ~FindConfigNode(c.nodes, key) THEN c
    ELSE IF c.cfg[key] = "auto" THEN [c EXCEPT !.cfg[key] = val]
    ELSE IF ~must_match THEN c
    ELSE IF c.cfg[key] # "none" /\ c.cfg[key] # val
    THEN [c EXCEPT !.mismatches = Append(@, Mismatch(key, c.cfg[key], val))]
    ELSE c

\* the fill_match calls trainer_config_process starts with, each with the
\* trainer's own value for the key
FirstFills(auto_find_batch_size) ==
    << <<<<Root, "train_micro_batch_size_per_gpu">>, ~auto_find_batch_size>>,
       <<<<Root, "gradient_accumulation_steps">>, TRUE>>,
       <<<<Root, "train_batch_size">>, ~auto_find_batch_size>>,
       <<<<Root, "gradient_clipping">>, TRUE>>,
       <<<<"optimizer.params", "lr">>, TRUE>>,
       <<<<"optimizer.params", "betas">>, TRUE>>,
       <<<<"optimizer.params", "eps">>, TRUE>>,
       <<<<"optimizer.params", "weight_decay">>, TRUE>>,
       <<<<"scheduler.params", "warmup_min_lr">>, FALSE>>,
       <<<<"scheduler.params", "warmup_max_lr">>, TRUE>>,
       <<<<"fp16", "enabled">>, TRUE>>,
       <<<<"amp", "enabled">>, TRUE>>,
       <<<<"amp", "opt_level">>, TRUE>>,
       <<<<"bf16", "enabled">>, TRUE>> >>

RECURSIVE FillAll(_, _)
FillAll(c, fills) ==
    IF fills = <<>> THEN c
    ELSE FillAll(FillMatch(c, Head(fills)[1], "local", Head(fills)[2]), Tail(fills))

\* hasattr(self, 'totel_steps'): no code of the class sets an attribute of
\* that name
HasTotelSteps == FALSE

\* the hidden-size keys: only when one of them is "auto"; the two stage3
\* keys only when zero_optimization.stage is 3
FillHidden(c, stage, hidden) ==
    IF \A k \in HiddenSizeKeys : GetValue(c.cfg, c.nodes, k) # "auto"
    THEN [c |-> c, outcome |-> "ok"]
    ELSE IF hidden = "neither" THEN [c |-> c, outcome |-> "ValueError"]
    ELSE LET c1 == FillMatch(c, <<"zero_optimization", "reduce_bucket_size">>, "local", FALSE)
         IN  [c |-> IF stage = 3
                    THEN FillAll(c1,
                           << <<<<"zero_optimization", "stage3_prefetch_bucket_size">>, FALSE>>,
                              <<<<"zero_optimization", "stage3_param_persistence_threshold">>, FALSE>> >>)
                    ELSE c1,
              outcome |-> "ok"]

\* trainer_config_process
ConfigProcess(c, stage, hidden, auto_find_batch_size) ==
    LET h == FillHidden(FillAll(c, FirstFills(auto_find_batch_size)), stage, hidden)
    IN  IF h.outcome # "ok" THEN h
        ELSE [c |-> IF HasTotelSteps
                    THEN FillAll(h.c, << <<<<"scheduler.params", "total_num_steps">>, TRUE>>,
                                         <<<<"scheduler.params", "warmup_num_steps">>, TRUE>> >>)
                    ELSE h.c,
              outcome |-> "ok"]

\* the configuration files: every group of keys missing, "auto" or set to
\* a value of the user's
DsGroups == <<TopKeys, OptimizerKeys, SchedulerKeys, PrecisionKeys, HiddenSizeKeys>>

DsFiles ==
    { [cfg |-> [k \in DsKeys |->
                   LET g == CHOOSE i \in DOMAIN DsGroups : k \in DsGroups[i]
                   IN  IF v[g] = "missing" THEN "none" ELSE v[g]],
       nodes |-> {p \in DsParents :
                    \E k \in DsKeys : k[1] = p /\
                       v[CHOOSE i \in DOMAIN DsGroups : k \in DsGroups[i]] # "missing"}] :
      v \in [DOMAIN DsGroups -> {"missing", "auto", "other"}] }

NoDsCall == [op |-> "none"]

DsIdle ==
    /\ ds_config = [k \in DsKeys |-> "none"]
    /\ ds_nodes = {}
    /\ ds_stage = 0
    /\ ds_hidden = "neither"
    /\ mismatches = <<>>
    /\ ds_call = NoDsCall


----------------------------------------------------------------------------
(* TrainerDDP: one Trainer per worker process, each running its own fit. *)
Ranks == 0..(WorldSize - 1)

\* master_rank=0 by default, or any rank, or a list of ranks
MasterRanks == {{r} : r \in Ranks} \cup {Ranks}

\* self.verbose = (torch.distributed.get_rank() in master_rank)
DdpVerbose(r, masters) == r \in masters

\* disable_workers_callback(callbacks): on a rank outside master_rank the
\* callbacks of the list it is handed get run_callback = False; the result
\* is the set of callbacks switched off on rank r
SwitchedOff(r, masters, cbs, called) ==
    IF called /\ r \notin masters THEN {cbs[i] : i \in DOMAIN cbs} ELSE {}

\* self.run_callbacks = True in Trainer.initialize; nothing assigns it again
RunCallbacks == TRUE

\* CallbackList calls a callback's hook when the list's run_callbacks flag
\* and the callback's own run_callback flag are both set
HookRuns(list_flag, callback_flag) == list_flag /\ callback_flag

\* the callbacks of rank r whose hooks run at an event
Running(p) ==
    {p.callbacks[i] : i \in {j \in DOMAIN p.callbacks :
                                HookRuns(RunCallbacks, p.callbacks[j] \notin p.off)}}

NewProc ==
    [pc |-> "idle", epoch |-> 0, local |-> 0, steps |-> 0, per_epoch |-> <<>>,
     stop_training |-> FALSE, callbacks |-> <<>>, off |-> {}, ran |-> {}]

DdpIdle ==
    /\ master_rank = {0}
    /\ ddp_callbacks = <<>>
    /\ ddp_disabled = FALSE
    /\ ddp_epochs = 1
    /\ ddp_steps = 1
    /\ proc = [r \in Ranks |-> NewProc]

AuxIdle == CkptIdle /\ RegIdle /\ DsIdle /\ DdpIdle

(* Trainer.__init__ / Trainer.initialize followed by compile(). *)
InitWith(inp) ==
    /\ global_step = 0 /\ local_step = 0 /\ batch_step = 0 /\ epoch = 0
    /\ total_steps = 0
    /\ steps_per_epoch = NoneInt
    /\ epochs = NoneInt
    /\ resume_step = 0 /\ resume_epoch = 0
    /\ stop_training = FALSE
    /\ grad_accumulation_steps = inp.accum
    /\ mixed_precision_mode = inp.mode
    /\ scheduler = inp.sched
    /\ clip_grad_norm = inp.clip
    /\ smooth_metrics_config = inp.smooth
    /\ callbacks = <<>>
    /\ scale_before_step = Rat(0)
    /\ logs = EmptyMap
    /\ dataloader_len = inp.len
    /\ has_len = inp.has_len
    /\ dist_sampler = inp.sampler
    /\ sampler_epoch = 0
    /\ iter_pos = 0
    /\ train_X = FALSE
    /\ scaler = NewScaler
    /\ opt_steps = 0
    /\ sched_steps = NewSchedulers(inp.sched)
    /\ steps_file = NoFile
    /\ pc = "idle"
    /\ epoch_i = 0 /\ local_i = 0 /\ resume_step_l = 0 /\ micro = 0
    /\ loss = Rat(0) /\ loss_detail = EmptyMap
    /\ tr_loss = Rat(0) /\ tr_loss_detail = EmptyMap
    /\ arg_epochs = inp.epochs
    /\ arg_steps = inp.steps
    /\ save_ckpt_when_error = inp.ckpt
    /\ user_callbacks = inp.cbs
    /\ verbose = inp.verbose
    /\ mail_receivers_when_error = inp.mail
    /\ save_batch_path_when_error = inp.dump
    /\ criterion = [shape |-> inp.shape, values |-> inp.losses]
    /\ events = <<>> /\ prev_events = <<>>
    /\ fits = 0
    /\ fresh = TRUE
    /\ loaded = NoLoad
    /\ save_info = NoLoad
    /\ n_fetch = 0 /\ n_forward = 0 /\ n_update = 0
    /\ raw_loss = 0 /\ raw_detail = EmptyMap
    /\ last_update = NoUpdate
    /\ broke_early = FALSE
    /\ last_op = "init"
    /\ saver_done = FALSE
    /\ fit_fresh = TRUE
    /\ ops = <<>>
    /\ dispatched = <<>>
    /\ stop_info = NoStop
    /\ error = "none"
    /\ raised = "none"
    /\ attempted = <<>>
    /\ logs_id = 0
    /\ log_seen = <<>>
    /\ n_rebuild = 0
    /\ registered = <<>>
    /\ fetch_log = <<>> /\ prev_fetch_log = <<>>
    /\ pass_log = <<>> /\ set_epoch_log = <<>>

Init == \E inp \in Inputs : InitWith(inp) /\ AuxIdle

----------------------------------------------------------------------------
(* Callback dispatch.  CallbackList calls the hook `name` of every callback;
   ev holds the trainer's counters at that moment.  A stopping callback
   (EarlyStopping-like) may set stop_training; a checkpointing callback
   calls save_steps_params at one event of its choice. *)
Event(name, gs, ep, ls) ==
    [name |-> name, global_step |-> gs, epoch |-> ep, local_step |-> ls]

BatchEnds(evs) == SelectSeq(evs, LAMBDA e : e.name = "on_batch_end")

Dispatch(name, gs, ep, ls, spe) ==
    /\ events' = Append(events, Event(name, gs, ep, ls))
    /\ last_op' = name
    /\ dispatched' = callbacks
    /\ UNCHANGED fit_fresh
    /\ \E stop \in (IF Has(callbacks, "stop") THEN BOOLEAN ELSE {FALSE}) :
           /\ stop_training' = (stop_training \/ stop)
           /\ stop_info' = IF ~stop_training /\ stop
                           THEN [valid |-> TRUE, at |-> name, epoch |-> ep,
                                 local_step |-> ls, n_update |-> n_update,
                                 n_events |-> Len(events')]
                           ELSE stop_info
    /\ \E save \in (IF Has(callbacks, "save") /\ ~saver_done
                    THEN BOOLEAN ELSE {FALSE}) :
           IF save
           THEN /\ steps_file' = [present |-> TRUE, params |-> StepParams(ls, ep, spe)]
                /\ saver_done' = TRUE
                /\ save_info' = [valid |-> TRUE, at |-> name,
                                 local_step |-> ls, epoch |-> ep, steps_per_epoch |-> spe,
                                 done |-> Len(BatchEnds(events')), fit |-> fits]
           ELSE UNCHANGED <<steps_file, save_info, saver_done>>

----------------------------------------------------------------------------
(* Operations on a trainer that is not inside fit. *)

\* A new Trainer is constructed and compiled with the same arguments.
NewTrainer ==
    /\ UNCHANGED auxVars
    /\ pc \in Idle
    /\ fits >= 1 /\ fits < MaxFits
    /\ ~fresh
    /\ global_step' = 0 /\ local_step' = 0 /\ batch_step' = 0 /\ epoch' = 0
    /\ total_steps' = 0
    /\ steps_per_epoch' = NoneInt
    /\ epochs' = NoneInt
    /\ resume_step' = 0 /\ resume_epoch' = 0
    /\ stop_training' = FALSE
    /\ scale_before_step' = Rat(0)
    /\ scaler' = NewScaler
    /\ opt_steps' = 0
    /\ sched_steps' = NewSchedulers(scheduler)
    /\ iter_pos' = 0
    /\ train_X' = FALSE
    /\ callbacks' = <<>>
    /\ pc' = "idle"
    /\ fresh' = TRUE
    /\ loaded' = NoLoad
    /\ last_op' = "new"
    /\ UNCHANGED <<compileVars, argVars, dataloader_len, has_len, dist_sampler,
                   sampler_epoch, steps_file, ops>>
    /\ UNCHANGED <<epoch_i, local_i, resume_step_l, micro, logs, loss, loss_detail,
                   tr_loss, tr_loss_detail>>
    /\ UNCHANGED <<events, prev_events, registered, fetch_log, prev_fetch_log, pass_log, set_epoch_log, n_rebuild, fits, error, raised, attempted, logs_id, log_seen, save_info, n_fetch, n_forward, n_update,
                   raw_loss, raw_detail, last_update, broke_early>>
    /\ UNCHANGED <<saver_done, fit_fresh, dispatched, stop_info>>

\* Trainer.load_steps_params
LoadStepsParams ==
    /\ UNCHANGED auxVars
    /\ pc \in Idle
    /\ UNCHANGED ops
    /\ fits < MaxFits
    /\ steps_file.present
    /\ resume_step' = steps_file.params.resume_step
    /\ resume_epoch' = steps_file.params.resume_epoch
    /\ loaded' = save_info
    /\ last_op' = "load"
    /\ UNCHANGED <<global_step, local_step, batch_step, epoch, steps_per_epoch,
                   total_steps, epochs, callbacks, stop_training, scale_before_step, logs>>
    /\ UNCHANGED <<compileVars, collabVars, frameVars, argVars>>
    /\ UNCHANGED <<events, prev_events, registered, fetch_log, prev_fetch_log, pass_log, set_epoch_log, n_rebuild, fits, error, raised, attempted, logs_id, log_seen, fresh, save_info, n_fetch, n_forward,
                   n_update, raw_loss, raw_detail, last_update, broke_early>>
    /\ UNCHANGED <<saver_done, fit_fresh, dispatched, stop_info>>

\* Trainer.save_steps_params called by the user between fit calls; before the
\* first fit steps_per_epoch is None and the call raises without writing.
SaveStepsParams ==
    /\ UNCHANGED auxVars
    /\ pc \in Idle
    /\ UNCHANGED ops
    /\ steps_per_epoch # NoneInt /\ steps_per_epoch # 0
    /\ steps_file' = [present |-> TRUE, params |-> StepParams(local_step, epoch, steps_per_epoch)]
    /\ save_info' = [valid |-> TRUE, at |-> "idle",
                     local_step |-> local_step, epoch |-> epoch,
                     steps_per_epoch |-> steps_per_epoch,
                     done |-> Len(BatchEnds(events)), fit |-> fits]
    /\ last_op' = "save"
    /\ UNCHANGED <<trainerVars, compileVars, frameVars, argVars>>
    /\ UNCHANGED <<dataloader_len, has_len, dist_sampler, sampler_epoch, iter_pos, train_X, scaler, opt_steps, sched_steps>>
    /\ UNCHANGED <<events, prev_events, registered, fetch_log, prev_fetch_log, pass_log, set_epoch_log, n_rebuild, fits, error, raised, attempted, logs_id, log_seen, fresh, loaded, n_fetch, n_forward,
                   n_update, raw_loss, raw_detail, last_update, broke_early>>
    /\ UNCHANGED <<saver_done, fit_fresh, dispatched, stop_info>>

----------------------------------------------------------------------------
(* Trainer.fit / Trainer._fit, one action per stretch of code between two
   callback events. *)

\* _fit returns or raises: its locals are gone
PopFrame ==
    /\ epoch_i' = 0 /\ local_i' = 0 /\ resume_step_l' = 0 /\ micro' = 0
    /\ logs' = EmptyMap
    /\ loss' = Rat(0) /\ loss_detail' = EmptyMap
    /\ tr_loss' = Rat(0) /\ tr_loss_detail' = EmptyMap

\* fit entry: _prepare_inputs and _prepare_callbacks
FitEnter ==
    /\ UNCHANGED auxVars
    /\ pc \in Idle
    /\ fits < MaxFits
    /\ IF ~has_len /\ arg_steps = NoneInt
       THEN \* the assert of _prepare_inputs fails
            /\ error' = "AssertionError"
            /\ pc' = "except"
            /\ pass_log' = <<>>
            /\ UNCHANGED <<steps_per_epoch, epochs, total_steps, iter_pos, callbacks,
                           stop_training>>
       ELSE /\ steps_per_epoch' = IF arg_steps = NoneInt
                                  THEN DerivedSteps(dataloader_len, grad_accumulation_steps)
                                  ELSE arg_steps
            /\ epochs' = arg_epochs
            /\ total_steps' = steps_per_epoch' * arg_epochs
            /\ iter_pos' = 0                 \* iter(self.train_dataloader)
            /\ pass_log' = <<sampler_epoch>>
            /\ callbacks' = PrepareCallbacks(user_callbacks, smooth_metrics_config, verbose)
            /\ stop_training' = ClearStop(stop_training)
            /\ error' = "none"
            /\ pc' = "train_begin"
    /\ raised' = "none"
    /\ attempted' = <<>>
    /\ logs_id' = 0
    /\ log_seen' = <<>>
    /\ registered' = <<>>
    /\ prev_fetch_log' = fetch_log
    /\ fetch_log' = <<>>
    /\ set_epoch_log' = <<>>
    /\ fits' = fits + 1
    /\ fresh' = FALSE
    /\ fit_fresh' = fresh
    /\ prev_events' = events
    /\ events' = <<>>
    /\ n_rebuild' = 0
    /\ ops' = <<>>
    /\ dispatched' = <<>>
    /\ stop_info' = NoStop
    /\ n_fetch' = 0 /\ n_forward' = 0 /\ n_update' = 0
    /\ raw_loss' = 0 /\ raw_detail' = EmptyMap
    /\ last_update' = NoUpdate
    /\ broke_early' = FALSE
    /\ last_op' = "fit"
    /\ UNCHANGED <<global_step, local_step, batch_step, epoch, resume_step, resume_epoch,
                   scale_before_step, logs>>
    /\ UNCHANGED <<compileVars, argVars>>
    /\ UNCHANGED <<dataloader_len, has_len, dist_sampler, sampler_epoch, train_X, scaler, opt_steps, sched_steps,
                   steps_file>>
    /\ UNCHANGED <<epoch_i, local_i, resume_step_l, micro, loss, loss_detail,
                   tr_loss, tr_loss_detail>>
    /\ UNCHANGED <<loaded, save_info, saver_done>>

\* self.callbacks.on_train_begin(); logs = self._log_init(); the epoch loop starts
OnTrainBegin ==
    /\ UNCHANGED auxVars
    /\ pc = "train_begin"
    /\ UNCHANGED ops
    /\ Dispatch("on_train_begin", global_step, epoch, local_step, steps_per_epoch)
    /\ logs' = LogInit(sched_steps)
    /\ logs_id' = logs_id + 1
    /\ UNCHANGED log_seen
    /\ epoch_i' = resume_epoch             \* range(self.resume_epoch, epochs)
    /\ pc' = IF RangeHas(resume_epoch, epochs) THEN "epoch_begin" ELSE "train_end"
    /\ UNCHANGED <<global_step, local_step, batch_step, epoch, steps_per_epoch,
                   total_steps, epochs, callbacks, resume_step, resume_epoch, scale_before_step>>
    /\ UNCHANGED <<compileVars, argVars>>
    /\ UNCHANGED <<dataloader_len, has_len, dist_sampler, sampler_epoch, iter_pos, train_X, scaler, opt_steps, sched_steps>>
    /\ UNCHANGED <<local_i, resume_step_l, micro, loss, loss_detail, tr_loss, tr_loss_detail>>
    /\ UNCHANGED <<prev_events, registered, fetch_log, prev_fetch_log, pass_log, set_epoch_log, n_rebuild, fits, error, raised, attempted, fresh, loaded, n_fetch, n_forward, n_update,
                   raw_loss, raw_detail, last_update, broke_early>>

\* top of the epoch loop: self.epoch = epoch; resume_step; on_epoch_begin
OnEpochBegin ==
    /\ UNCHANGED auxVars
    /\ pc = "epoch_begin"
    /\ UNCHANGED ops
    /\ epoch' = epoch_i
    /\ resume_step_l' = LoopStart(epoch_i, resume_epoch, resume_step)
    /\ Dispatch("on_epoch_begin", global_step, epoch', local_step, steps_per_epoch)
    /\ local_i' = resume_step_l'           \* range(resume_step, self.steps_per_epoch)
    /\ pc' = IF RangeHas(resume_step_l', steps_per_epoch) THEN "batch_begin" ELSE "epoch_end"
    /\ UNCHANGED <<global_step, local_step, batch_step, steps_per_epoch,
                   total_steps, epochs, callbacks, resume_step, resume_epoch, scale_before_step, logs>>
    /\ UNCHANGED <<compileVars, argVars>>
    /\ UNCHANGED <<dataloader_len, has_len, dist_sampler, sampler_epoch, iter_pos, train_X, scaler, opt_steps, sched_steps>>
    /\ UNCHANGED <<epoch_i, micro, loss, loss_detail, tr_loss, tr_loss_detail>>
    /\ UNCHANGED <<prev_events, registered, fetch_log, prev_fetch_log, pass_log, set_epoch_log, n_rebuild, fits, error, raised, attempted, logs_id, log_seen, fresh, loaded, n_fetch, n_forward, n_update,
                   raw_loss, raw_detail, last_update, broke_early>>

\* top of the step loop: counters, logs = self._log_init(), on_batch_begin
OnBatchBegin ==
    /\ UNCHANGED auxVars
    /\ pc = "batch_begin"
    /\ local_step' = local_i
    /\ global_step' = GlobalStepOf(epoch, steps_per_epoch, local_step')
    /\ LET given == StepLogs(logs, sched_steps)
       IN  /\ logs' = Tagged(given, callbacks)
           /\ logs_id' = logs_id + 1
           /\ log_seen' = Append(log_seen, Seen("on_batch_begin", logs_id', given, logs'))
    /\ Dispatch("on_batch_begin", global_step', epoch, local_step', steps_per_epoch)
    /\ tr_loss' = Rat(0) /\ tr_loss_detail' = EmptyMap
    /\ raw_loss' = 0 /\ raw_detail' = EmptyMap
    /\ micro' = 0                          \* range(self.grad_accumulation_steps)
    /\ ops' = <<"on_batch_begin">>
    /\ pc' = IF RangeHas(0, grad_accumulation_steps) THEN "fetch" ELSE "update"
    /\ UNCHANGED <<batch_step, epoch, steps_per_epoch, total_steps, epochs, callbacks,
                   resume_step, resume_epoch, scale_before_step>>
    /\ UNCHANGED <<compileVars, argVars>>
    /\ UNCHANGED <<dataloader_len, has_len, dist_sampler, sampler_epoch, iter_pos, train_X, scaler, opt_steps, sched_steps>>
    /\ UNCHANGED <<epoch_i, local_i, resume_step_l, loss, loss_detail>>
    /\ UNCHANGED <<prev_events, registered, fetch_log, prev_fetch_log, pass_log, set_epoch_log, n_rebuild, fits, error, raised, attempted, fresh, loaded, n_fetch, n_forward, n_update,
                   last_update, broke_early>>

\* Trainer.train_step on the fetched batch: forward, criterion, loss
\* normalisation, loss_backward.  l and a are the criterion's primary and
\* auxiliary loss for this batch.
TrainStep(l, a) ==
    LET detail == CriterionDetail(criterion.shape, a)
    IN  /\ loss' = NormLoss(l, grad_accumulation_steps)
        /\ loss_detail' = [k \in DOMAIN detail |->
                              NormDetail(detail[k], grad_accumulation_steps)]
        /\ scale_before_step' = IF UsesScaler(mixed_precision_mode) THEN scaler.scale ELSE Rat(0)
        /\ n_fetch' = n_fetch + 1
        /\ n_forward' = n_forward + 1
        /\ raw_loss' = raw_loss + l
        /\ raw_detail' = [k \in DOMAIN raw_detail \cup DOMAIN detail |->
                              (IF k \in DOMAIN raw_detail THEN raw_detail[k] ELSE 0)
                              + (IF k \in DOMAIN detail THEN detail[k] ELSE 0)]

\* self.train_X, self.train_y are bound to the batch, then train_step runs:
\* a criterion returning an unsupported type makes it raise ValueError after
\* the forward pass
Fetched ==
    /\ train_X' = TRUE
    /\ IF criterion.shape = "invalid"
       THEN /\ error' = "ValueError"
            /\ pc' = "except"
            /\ ops' = ops \o <<"fetch", "forward">>
            /\ n_fetch' = n_fetch + 1
            /\ n_forward' = n_forward + 1
            /\ UNCHANGED <<loss, loss_detail, scale_before_step, raw_loss, raw_detail>>
       ELSE /\ \E l \in criterion.values, a \in criterion.values : TrainStep(l, a)
            /\ ops' = ops \o <<"fetch">> \o TrainStepOps
            /\ pc' = "train_step_end"
            /\ UNCHANGED error

\* _prepare_nextbatch when the iterator yields a batch, then train_step
FetchBatch ==
    /\ UNCHANGED auxVars
    /\ pc = "fetch"
    /\ ~Exhausted(iter_pos, dataloader_len)
    /\ iter_pos' = iter_pos + 1
    /\ batch_step' = batch_step + 1
    /\ fetch_log' = Append(fetch_log, Fetch(global_step, epoch, local_step, micro, iter_pos))
    /\ Fetched
    /\ last_op' = "fetch"
    /\ UNCHANGED <<global_step, local_step, epoch, steps_per_epoch, total_steps, epochs, callbacks,
                   resume_step, resume_epoch, stop_training, logs>>
    /\ UNCHANGED <<compileVars, argVars>>
    /\ UNCHANGED <<dataloader_len, has_len, dist_sampler, sampler_epoch, scaler, opt_steps, sched_steps, steps_file>>
    /\ UNCHANGED <<epoch_i, local_i, resume_step_l, micro, tr_loss, tr_loss_detail>>
    /\ UNCHANGED <<events, prev_events, registered, prev_fetch_log, pass_log, set_epoch_log, n_rebuild, fits, raised, attempted, logs_id, log_seen, fresh, loaded, save_info,
                   n_update, last_update, broke_early>>
    /\ UNCHANGED <<saver_done, fit_fresh, dispatched, stop_info>>

\* _prepare_nextbatch when the iterator is exhausted: on_dataloader_end, the
\* iterator is rebuilt, batch_step = 0 and next() is called again; on an empty
\* dataloader that second next() raises StopIteration out of _fit.
OnDataloaderEnd ==
    /\ UNCHANGED auxVars
    /\ pc = "fetch"
    /\ Exhausted(iter_pos, dataloader_len)
    /\ Dispatch("on_dataloader_end", global_step, epoch, local_step, steps_per_epoch)
    /\ sampler_epoch' = SetEpoch(dist_sampler, sampler_epoch, epoch)
    /\ set_epoch_log' = IF dist_sampler
                        THEN Append(set_epoch_log,
                                    [value |-> epoch,
                                     ends  |-> Len(SelectSeq(events',
                                                   LAMBDA e : e.name = "on_dataloader_end")),
                                     iters |-> Len(pass_log)])
                        ELSE set_epoch_log
    /\ n_rebuild' = n_rebuild + 1          \* iter(self.train_dataloader)
    /\ pass_log' = Append(pass_log, sampler_epoch')
    /\ batch_step' = 0
    /\ IF Exhausted(0, dataloader_len)
       THEN /\ iter_pos' = 0
            /\ error' = "StopIteration"
            /\ pc' = "except"
            /\ UNCHANGED <<loss, loss_detail, scale_before_step, n_fetch, n_forward,
                           raw_loss, raw_detail, train_X, ops, fetch_log>>
       ELSE /\ iter_pos' = 1
            /\ fetch_log' = Append(fetch_log, Fetch(global_step, epoch, local_step, micro, 0))
            /\ Fetched
    /\ UNCHANGED <<global_step, local_step, epoch, steps_per_epoch, total_steps, epochs, callbacks,
                   resume_step, resume_epoch, logs>>
    /\ UNCHANGED <<compileVars, argVars>>
    /\ UNCHANGED <<dataloader_len, has_len, dist_sampler, scaler, opt_steps, sched_steps>>
    /\ UNCHANGED <<epoch_i, local_i, resume_step_l, micro, tr_loss, tr_loss_detail>>
    /\ UNCHANGED <<prev_events, registered, prev_fetch_log, fits, raised, attempted, logs_id, log_seen, fresh, loaded, n_update, last_update, broke_early>>

\* self.callbacks.on_train_step_end(); tr_loss += loss.item(); tr_loss_detail
OnTrainStepEnd ==
    /\ UNCHANGED auxVars
    /\ pc = "train_step_end"
    /\ Dispatch("on_train_step_end", global_step, epoch, local_step, steps_per_epoch)
    /\ tr_loss' = RatAdd(tr_loss, loss)
    /\ tr_loss_detail' = AddDetail(tr_loss_detail, loss_detail)
    /\ micro' = micro + 1
    /\ ops' = Append(ops, "on_train_step_end")
    /\ pc' = IF RangeHas(micro', grad_accumulation_steps) THEN "fetch" ELSE "update"
    /\ UNCHANGED <<global_step, local_step, batch_step, epoch, steps_per_epoch,
                   total_steps, epochs, callbacks, resume_step, resume_epoch, scale_before_step, logs>>
    /\ UNCHANGED <<compileVars, argVars>>
    /\ UNCHANGED <<dataloader_len, has_len, dist_sampler, sampler_epoch, iter_pos, train_X, scaler, opt_steps, sched_steps>>
    /\ UNCHANGED <<epoch_i, local_i, resume_step_l, loss, loss_detail>>
    /\ UNCHANGED <<prev_events, registered, fetch_log, prev_fetch_log, pass_log, set_epoch_log, n_rebuild, fits, error, raised, attempted, logs_id, log_seen, fresh, loaded, n_fetch, n_forward, n_update,
                   raw_loss, raw_detail, last_update, broke_early>>

\* Trainer.step with the outcome of the scaler's inf/nan check, then
\* logs.update(dict({'loss': tr_loss}, **tr_loss_detail))
StepWith(found_inf) ==
    LET scaled  == UsesScaler(mixed_precision_mode)
        applied == IF scaled THEN ScalerApplies(found_inf) ELSE TRUE
        sc      == IF scaled THEN ScalerUpdate(scaler, found_inf) ELSE scaler
        skip    == IF scaled THEN SkipScheduler(sc.scale, scale_before_step) ELSE FALSE
        stepped == scheduler # "none" /\ ~skip
        ss      == IF stepped THEN StepSchedulers(sched_steps) ELSE sched_steps
        order   == IF stepped THEN SchedulerOrder(sched_steps) ELSE <<>>
    IN  /\ scaler' = sc
        /\ ops' = ops \o StepOps(scaled, clip_grad_norm, Len(order))
        /\ opt_steps' = IF applied THEN opt_steps + 1 ELSE opt_steps
        /\ sched_steps' = ss
        /\ last_update' = [valid |-> TRUE, scaled |-> scaled, found_inf |-> found_inf,
                           scale_before |-> scale_before_step, scale_after |-> sc.scale,
                           applied |-> applied, stepped |-> stepped,
                           sched_before |-> sched_steps, sched_after |-> ss,
                           order |-> order]

ParamUpdate ==
    /\ UNCHANGED auxVars
    /\ pc = "update"
    /\ \E found_inf \in (IF UsesScaler(mixed_precision_mode) THEN BOOLEAN ELSE {FALSE}) :
           StepWith(found_inf)
    /\ n_update' = n_update + 1
    /\ logs' = LogUpdate(logs, tr_loss, tr_loss_detail)
    /\ registered' = IF AddsLossMetrics(verbose, global_step, resume_step_l)
                     THEN Append(registered, global_step)   \* progbarlogger.add_metrics
                     ELSE registered
    /\ pc' = "batch_end"
    /\ last_op' = "step"
    /\ UNCHANGED <<global_step, local_step, batch_step, epoch, steps_per_epoch,
                   total_steps, epochs, callbacks, resume_step, resume_epoch, stop_training,
                   scale_before_step>>
    /\ UNCHANGED <<compileVars, argVars>>
    /\ UNCHANGED <<dataloader_len, has_len, dist_sampler, sampler_epoch, iter_pos, train_X, steps_file>>
    /\ UNCHANGED <<epoch_i, local_i, resume_step_l, micro, loss, loss_detail,
                   tr_loss, tr_loss_detail>>
    /\ UNCHANGED <<events, prev_events, fetch_log, prev_fetch_log, pass_log, set_epoch_log, n_rebuild, fits, error, raised, attempted, logs_id, log_seen, fresh, loaded, save_info, n_fetch,
                   n_forward, raw_loss, raw_detail, broke_early>>
    /\ UNCHANGED <<saver_done, fit_fresh, dispatched, stop_info>>

\* self.callbacks.on_batch_end(...); the step loop advances
OnBatchEnd ==
    /\ UNCHANGED auxVars
    /\ pc = "batch_end"
    /\ Dispatch("on_batch_end", global_step, epoch, local_step, steps_per_epoch)
    /\ logs' = Tagged(logs, callbacks)
    /\ log_seen' = Append(log_seen, Seen("on_batch_end", logs_id, logs, logs'))
    /\ UNCHANGED logs_id
    /\ local_i' = local_i + 1
    /\ pc' = AfterBatchEnd(stop_training', local_i', steps_per_epoch)
    /\ ops' = Append(ops, "on_batch_end")
    /\ UNCHANGED <<global_step, local_step, batch_step, epoch, steps_per_epoch,
                   total_steps, epochs, callbacks, resume_step, resume_epoch, scale_before_step>>
    /\ UNCHANGED <<compileVars, argVars>>
    /\ UNCHANGED <<dataloader_len, has_len, dist_sampler, sampler_epoch, iter_pos, train_X, scaler, opt_steps, sched_steps>>
    /\ UNCHANGED <<epoch_i, resume_step_l, micro, loss, loss_detail, tr_loss, tr_loss_detail>>
    /\ UNCHANGED <<prev_events, registered, fetch_log, prev_fetch_log, pass_log, set_epoch_log, n_rebuild, fits, error, raised, attempted, fresh, loaded, n_fetch, n_forward, n_update,
                   raw_loss, raw_detail, last_update, broke_early>>

\* self.callbacks.on_epoch_end(...); if callback_trainer.stop_training: break
OnEpochEnd ==
    /\ UNCHANGED auxVars
    /\ pc = "epoch_end"
    /\ UNCHANGED ops
    /\ Dispatch("on_epoch_end", global_step, epoch, local_step, steps_per_epoch)
    /\ epoch_i' = epoch_i + 1
    /\ pc' = AfterEpochEnd(stop_training', epoch_i', epochs)
    /\ broke_early' = (stop_training' /\ RangeHas(epoch_i', epochs))
    /\ UNCHANGED <<global_step, local_step, batch_step, epoch, steps_per_epoch,
                   total_steps, epochs, callbacks, resume_step, resume_epoch, scale_before_step, logs>>
    /\ UNCHANGED <<compileVars, argVars>>
    /\ UNCHANGED <<dataloader_len, has_len, dist_sampler, sampler_epoch, iter_pos, train_X, scaler, opt_steps, sched_steps>>
    /\ UNCHANGED <<local_i, resume_step_l, micro, loss, loss_detail, tr_loss, tr_loss_detail>>
    /\ UNCHANGED <<prev_events, registered, fetch_log, prev_fetch_log, pass_log, set_epoch_log, n_rebuild, fits, error, raised, attempted, logs_id, log_seen, fresh, loaded, n_fetch, n_forward, n_update,
                   raw_loss, raw_detail, last_update>>

\* self.callbacks.on_train_end(logs); return history
OnTrainEnd ==
    /\ UNCHANGED auxVars
    /\ pc = "train_end"
    /\ UNCHANGED ops
    /\ Dispatch("on_train_end", global_step, epoch, local_step, steps_per_epoch)
    /\ pc' = "done"
    /\ PopFrame
    /\ UNCHANGED <<global_step, local_step, batch_step, epoch, steps_per_epoch,
                   total_steps, epochs, callbacks, resume_step, resume_epoch, scale_before_step>>
    /\ UNCHANGED <<compileVars, argVars>>
    /\ UNCHANGED <<dataloader_len, has_len, dist_sampler, sampler_epoch, iter_pos, train_X, scaler, opt_steps, sched_steps>>
    /\ UNCHANGED <<prev_events, registered, fetch_log, prev_fetch_log, pass_log, set_epoch_log, n_rebuild, fits, error, raised, attempted, logs_id, log_seen, fresh, loaded, n_fetch, n_forward, n_update,
                   raw_loss, raw_detail, last_update, broke_early>>

\* send_email: smtplib.SMTPException is caught and logged inside send_email;
\* any other failure (the assert on the receivers, an OSError of the
\* connection) propagates
MailOutcomes == {"sent", "smtp_error", "raises"}

\* Trainer.fit's except branch runs the configured diagnostics one after the
\* other without guarding them, then `raise e`: the first diagnostic that
\* raises ends the handler with its own error
Propagated(orig, mail_raises, ckpt_raises, dump_raises) ==
    IF mail_raises THEN "MailError"
    ELSE IF ckpt_raises THEN "CheckpointError"
    ELSE IF dump_raises THEN "DumpError"
    ELSE orig

\* The diagnostics the except branch started, in the order of the code
Attempts(mail_runs, ckpt_runs, dump_runs) ==
    (IF mail_runs THEN <<"mail">> ELSE <<>>)
    \o (IF ckpt_runs THEN <<"checkpoint">> ELSE <<>>)
    \o (IF dump_runs THEN <<"dump">> ELSE <<>>)

\* Trainer.fit's except branch: the error email, then save_to_checkpoint
\* (which ends with save_steps_params), then the dump of self.train_X and
\* self.train_y; the error is raised again.  save_steps_params raises when
\* steps_per_epoch is None or 0; the dump raises when no batch was ever bound.
FitExcept ==
    /\ UNCHANGED auxVars
    /\ pc = "except"
    /\ \E mail \in (IF mail_receivers_when_error THEN MailOutcomes ELSE {"off"}),
          ckpt_io \in (IF save_ckpt_when_error THEN {"ok", "raises"} ELSE {"off"}),
          dump_io \in (IF save_batch_path_when_error THEN {"ok", "raises"} ELSE {"off"}) :
        LET mail_raises == mail = "raises"
            ckpt_runs   == ~mail_raises /\ save_ckpt_when_error
            steps_ok    == steps_per_epoch # NoneInt /\ steps_per_epoch # 0
            ckpt_raises == ckpt_runs /\ (ckpt_io = "raises" \/ ~steps_ok)
            dump_runs   == ~mail_raises /\ ~ckpt_raises /\ save_batch_path_when_error
            dump_raises == dump_runs /\ (dump_io = "raises" \/ ~train_X)
        IN  /\ IF ckpt_runs /\ ~ckpt_raises
               THEN /\ steps_file' = [present |-> TRUE,
                                      params |-> StepParams(local_step, epoch, steps_per_epoch)]
                    /\ save_info' = [valid |-> TRUE, at |-> "except",
                                     local_step |-> local_step, epoch |-> epoch,
                                     steps_per_epoch |-> steps_per_epoch,
                                     done |-> Len(BatchEnds(events)), fit |-> fits]
               ELSE UNCHANGED <<steps_file, save_info>>
            /\ raised' = Propagated(error, mail_raises, ckpt_raises, dump_raises)
            /\ attempted' = Attempts(mail_receivers_when_error, ckpt_runs, dump_runs)
    /\ pc' = "failed"
    /\ PopFrame
    /\ last_op' = "except"
    /\ UNCHANGED ops
    /\ UNCHANGED <<trainerVars, compileVars, argVars>>
    /\ UNCHANGED <<dataloader_len, has_len, dist_sampler, sampler_epoch, iter_pos, train_X, scaler, opt_steps, sched_steps>>
    /\ UNCHANGED <<logs_id, log_seen>>
    /\ UNCHANGED <<events, prev_events, registered, fetch_log, prev_fetch_log, pass_log, set_epoch_log, n_rebuild, fits, error, fresh, loaded, n_fetch, n_forward,
                   n_update, raw_loss, raw_detail, last_update, broke_early>>
    /\ UNCHANGED <<saver_done, fit_fresh, dispatched, stop_info>>

----------------------------------------------------------------------------
FitStep ==
    \/ OnTrainBegin \/ OnEpochBegin \/ OnBatchBegin
    \/ FetchBatch \/ OnDataloaderEnd \/ OnTrainStepEnd
    \/ ParamUpdate \/ OnBatchEnd \/ OnEpochEnd \/ OnTrainEnd
    \/ FitExcept

Next ==
    \/ NewTrainer \/ LoadStepsParams \/ SaveStepsParams \/ FitEnter
    \/ FitStep

Spec == Init /\ [][Next]_vars

\* The interpreter keeps executing a fit call that has started.
FairSpec == Spec /\ WF_vars(FitStep)

----------------------------------------------------------------------------
(* Observations over the event history. *)
Count(evs, name) == Len(SelectSeq(evs, LAMBDA e : e.name = name))

\* the (global_step, epoch, local_step) sequence seen at on_batch_end
StepLog(evs) ==
    LET be == BatchEnds(evs)
    IN  [i \in DOMAIN be |-> <<be[i].global_step, be[i].epoch, be[i].local_step>>]

CounterEvents ==
    {"on_batch_begin", "on_batch_end", "on_epoch_begin", "on_epoch_end", "on_train_end"}

----------------------------------------------------------------------------
(* C1: at every callback event dispatched after at least one step has
   completed (on_batch_begin, on_batch_end, on_epoch_begin, on_epoch_end,
   on_train_end) global_step = epoch * steps_per_epoch + local_step. *)
C1_CountersAtEvents ==
    (last_op \in CounterEvents /\ n_update >= 1)
        => global_step = epoch * steps_per_epoch + local_step

(* C2: a fit with E >= 1, S >= 1 that starts from resume counters (0, 0) and
   is not stopped early executes exactly E*S steps, and the last on_batch_end
   is given global_step = E*S - 1. *)
C2_FullRun ==
    (pc = "done" /\ resume_step = 0 /\ resume_epoch = 0 /\ ~broke_early
        /\ epochs >= 1 /\ steps_per_epoch >= 1)
        => /\ n_update = epochs * steps_per_epoch
           /\ Len(BatchEnds(events)) = epochs * steps_per_epoch
           /\ BatchEnds(events)[Len(BatchEnds(events))].global_step
                  = epochs * steps_per_epoch - 1

C2_Witness ==
    /\ pc = "done" /\ resume_step = 0 /\ resume_epoch = 0 /\ ~broke_early
    /\ epochs = 2 /\ steps_per_epoch = 3
    /\ n_update = 6
    /\ BatchEnds(events)[6].global_step = 5

(* C3: in a fit call that ends without an error the events are properly
   nested and complete: on_train_begin once and first; per epoch
   on_epoch_begin, then per step on_batch_begin ... on_batch_end, then
   on_epoch_end; on_train_end once and last; and a fit call that has started
   always ends. *)
NestStep(st, name) ==
    CASE st = "start" /\ name = "on_train_begin" -> "train"
      [] st = "train" /\ name = "on_epoch_begin" -> "epoch"
      [] st = "train" /\ name = "on_train_end"   -> "end"
      [] st = "epoch" /\ name = "on_batch_begin" -> "step"
      [] st = "epoch" /\ name = "on_epoch_end"   -> "train"
      [] st = "step"  /\ name \in {"on_dataloader_end", "on_train_step_end"} -> "step"
      [] st = "step"  /\ name = "on_batch_end"   -> "epoch"
      [] OTHER -> "bad"

RECURSIVE NestRun(_, _, _)
NestRun(evs, i, st) ==
    IF i > Len(evs) THEN st ELSE NestRun(evs, i + 1, NestStep(st, evs[i].name))

NestState(evs) == NestRun(evs, 1, "start")

C3_Lifecycle ==
    /\ [](/\ NestState(events) # "bad"
          /\ pc = "done" => NestState(events) = "end")
    /\ (pc = "train_begin") ~> (pc \in {"done", "failed"})

C3_Witness ==
    /\ pc = "done"
    /\ epochs = 2 /\ steps_per_epoch = 2 /\ grad_accumulation_steps = 2
    /\ Count(events, "on_epoch_begin") = 2
    /\ Count(events, "on_batch_end") = 4
    /\ Count(events, "on_dataloader_end") >= 1
    /\ events[Len(events)].name = "on_train_end"

\* the state is that of the fit call whose events are recorded
InFitView == pc \notin Idle \/ last_op \in {"on_train_end", "except"}

Max(a, b) == IF a >= b THEN a ELSE b

(* C4: fit iterates the epochs resume_epoch .. E-1; the first epoch iterated
   starts local_step at resume_step and every later epoch at 0, so no step
   before (resume_epoch, resume_step) is executed. *)
C4_ResumeStart ==
    InFitView =>
        LET eb == SelectSeq(events, LAMBDA e : e.name = "on_epoch_begin")
        IN  /\ \A j \in DOMAIN eb :
                   eb[j].epoch = resume_epoch + j - 1 /\ eb[j].epoch < epochs
            /\ (pc = "done" /\ ~broke_early) => Len(eb) = Max(0, epochs - resume_epoch)
            /\ \A i \in DOMAIN events :
                   events[i].name = "on_batch_begin" =>
                       /\ events[i].epoch >= resume_epoch
                       /\ events[i].epoch = resume_epoch
                              => events[i].local_step >= resume_step
                       /\ events[i - 1].name = "on_epoch_begin"
                              => events[i].local_step =
                                     (IF events[i].epoch = resume_epoch
                                      THEN resume_step ELSE 0)

C4_Witness ==
    /\ pc = "done" /\ last_op = "on_train_end"
    /\ resume_epoch = 0 /\ resume_step = 1
    /\ epochs = 2 /\ steps_per_epoch = 3
    /\ Count(events, "on_epoch_begin") = 2
    /\ n_update = 5

(* C5: resumption is idempotent: counters saved after step k and loaded into
   a (freshly constructed) trainer make fit produce at on_batch_end exactly
   the (global_step, epoch, local_step) sequence of the uninterrupted run
   after step k; the interrupted prefix followed by the resumed run is the
   uninterrupted run's sequence. *)
UninterruptedLog(E, S) ==
    [i \in 1..(E * S) |-> <<i - 1, (i - 1) \div S, (i - 1) % S>>]

C5_ResumeIdempotent ==
    (/\ pc = "done" /\ last_op = "on_train_end" /\ ~broke_early
     /\ loaded.valid /\ loaded.at = "on_batch_end")
        => LET full == UninterruptedLog(epochs, steps_per_epoch)
               k    == loaded.epoch * loaded.steps_per_epoch + loaded.local_step + 1
           IN  /\ SubSeq(full, 1, k) \o StepLog(events) = full
               /\ loaded.fit = fits - 1
                      => SubSeq(StepLog(prev_events), 1, loaded.done) \o StepLog(events)
                             = SubSeq(full, k - loaded.done + 1, Len(full))

C5_Witness ==
    /\ pc = "done" /\ last_op = "on_train_end" /\ ~broke_early
    /\ fit_fresh /\ fits = 2
    /\ loaded.valid /\ loaded.at = "on_batch_end"
    /\ loaded.epoch = 0 /\ loaded.local_step = 1
    /\ epochs = 2 /\ steps_per_epoch = 3
    /\ StepLog(prev_events) = UninterruptedLog(2, 3)
    /\ StepLog(events) = SubSeq(UninterruptedLog(2, 3), 3, 6)

(* C6: save_steps_params writes exactly resume_step = (local_step+1) mod
   steps_per_epoch and resume_epoch = epoch + (local_step+1) div
   steps_per_epoch, so 0 <= resume_step < steps_per_epoch; load_steps_params
   sets resume_step and resume_epoch to those values and changes no other
   counter. *)
C6_StepParams ==
    /\ [](steps_file.present =>
            /\ save_info.valid
            /\ DOMAIN steps_file.params = {"resume_step", "resume_epoch"}
            /\ steps_file.params.resume_step
                   = (save_info.local_step + 1) % save_info.steps_per_epoch
            /\ steps_file.params.resume_epoch
                   = save_info.epoch
                       + ((save_info.local_step + 1) \div save_info.steps_per_epoch)
            /\ steps_file.params.resume_step >= 0
            /\ steps_file.params.resume_step < save_info.steps_per_epoch)
    /\ [][last_op' = "load" =>
            /\ resume_step' = steps_file.params.resume_step
            /\ resume_epoch' = steps_file.params.resume_epoch
            /\ UNCHANGED <<global_step, local_step, epoch, batch_step>>]_vars

C6_Witness ==
    /\ last_op = "load"
    /\ save_info.valid
    /\ save_info.local_step = 2 /\ save_info.epoch = 0 /\ save_info.steps_per_epoch = 3
    /\ resume_step = 0 /\ resume_epoch = 1
    /\ global_step = 5

(* C7: with accumulation factor A every step performs exactly A batch
   fetches, A forward/backward passes and A on_train_step_end events and then
   exactly one step(); after n completed steps n*A batches have been fetched
   and n updates invoked. *)
C7_Accumulation ==
    InFitView =>
        LET A   == grad_accumulation_steps
            n   == Len(BatchEnds(events))
            tse == Count(events, "on_train_step_end")
        IN  /\ n_forward = n_fetch
            /\ n_update * A <= n_fetch /\ n_fetch <= (n_update + 1) * A
            /\ tse <= n_fetch /\ n_fetch <= tse + 1
            /\ pc = "update" => n_fetch = (n_update + 1) * A /\ tse = n_fetch
            /\ pc = "batch_end" => n_update = n + 1 /\ n_fetch = n_update * A /\ tse = n_fetch
            /\ (pc \in {"batch_begin", "epoch_begin", "epoch_end", "train_end", "done"})
                   => n_update = n /\ n_fetch = n * A /\ tse = n * A

C7_Witness ==
    /\ last_op = "on_batch_end"
    /\ grad_accumulation_steps = 2
    /\ Len(BatchEnds(events)) = 3
    /\ n_update = 3 /\ n_fetch = 6 /\ n_forward = 6
    /\ Count(events, "on_train_step_end") = 6
    /\ Count(events, "on_dataloader_end") >= 1

(* C8: the `loss` in the LogRecord of a step is the sum over its A
   micro-batches of (loss / A), the mean of the A micro-batch losses; each
   loss-detail entry is the sum of its A values each divided by A; for A = 1
   the logged loss is the unscaled loss. *)
C8_LoggedLoss ==
    pc = "batch_end" =>
        LET A == grad_accumulation_steps
        IN  /\ "loss" \in DOMAIN logs
            /\ RatEq(logs["loss"], <<raw_loss, A>>)
            /\ \A k \in DOMAIN raw_detail :
                   k \in DOMAIN logs /\ RatEq(logs[k], <<raw_detail[k], A>>)
            /\ A = 1 => logs["loss"] = <<raw_loss, 1>>

C8_Witness ==
    /\ pc = "batch_end"
    /\ grad_accumulation_steps = 2
    /\ criterion.shape = "tuple"
    /\ raw_loss = 3 /\ raw_detail["loss1"] = 2
    /\ logs["loss"] = <<3, 2>> /\ logs["loss1"] = <<1, 1>>

(* C9: in scaled-precision mode, when the scale factor after the scaler
   update is lower than the value recorded before backward (the scaler
   skipped the optimizer update), no scheduler is stepped in that
   iteration. *)
C9_SkippedStepKeepsScheduler ==
    (/\ last_update.valid /\ last_update.scaled
     /\ RatLess(last_update.scale_after, last_update.scale_before))
        => /\ ~last_update.stepped
           /\ last_update.sched_after = last_update.sched_before

C9_Witness ==
    /\ last_update.valid /\ last_update.scaled
    /\ mixed_precision_mode = "fp16" /\ scheduler = "list"
    /\ RatLess(last_update.scale_after, last_update.scale_before)
    /\ ~last_update.applied
    /\ last_update.sched_before[1] = 1
    /\ sched_steps[1] = 1 /\ sched_steps[2] = 1 /\ opt_steps = 1

(* C10: under the scaling policy the scheduler is stepped in an iteration if
   and only if the optimizer's update was applied in it, whatever the scaler
   does to the scale factor, so the scheduler's step count always equals the
   number of applied optimizer updates. *)
C10_Lockstep ==
    (UsesScaler(mixed_precision_mode) /\ scheduler # "none")
        => /\ \A i \in DOMAIN sched_steps : sched_steps[i] = opt_steps
           /\ last_update.valid => (last_update.stepped <=> last_update.applied)

(* C11: within a step the operations occur in the order on_batch_begin; per
   micro-batch fetch, forward, loss normalisation, backward,
   on_train_step_end; then unscale (scaling policy only), the optional
   gradient-norm clip, the optimizer step, gradient zeroing, the scheduler
   step (unless skipped), on_batch_end; gradients are zeroed exactly once
   per step, after the optimizer step, under every precision policy. *)
RECURSIVE Rep(_, _)
Rep(seq, n) == IF n = 0 THEN <<>> ELSE seq \o Rep(seq, n - 1)

\* the operations the claim names (the scaler's own update is not one of them)
Named(oplog) == SelectSeq(oplog, LAMBDA o : o # "scaler_update")

StepOrder(A, scaled, clip, nsched) ==
    <<"on_batch_begin">>
    \o Rep(<<"fetch", "forward", "normalize", "backward", "on_train_step_end">>, A)
    \o (IF scaled THEN <<"unscale">> ELSE <<>>)
    \o (IF clip THEN <<"clip">> ELSE <<>>)
    \o <<"optimizer_step", "zero_grad">>
    \o Rep(<<"scheduler_step">>, nsched)
    \o <<"on_batch_end">>

\* which policies unscale: "fp16" does, off does not; "bf16" is left open here
ScaledOptions(mode) ==
    IF mode = "fp16" THEN {TRUE} ELSE IF mode = "off" THEN {FALSE} ELSE BOOLEAN

C11_StepOrder ==
    last_op = "on_batch_end" =>
        /\ \E scaled \in ScaledOptions(mixed_precision_mode) :
               Named(ops) = StepOrder(grad_accumulation_steps, scaled, clip_grad_norm,
                                      IF last_update.stepped THEN Len(sched_steps) ELSE 0)
        /\ Len(SelectSeq(ops, LAMBDA o : o = "zero_grad")) = 1

C11_Witness ==
    /\ last_op = "on_batch_end"
    /\ mixed_precision_mode = "fp16" /\ clip_grad_norm /\ scheduler = "list"
    /\ grad_accumulation_steps = 2
    /\ last_update.stepped
    /\ Len(ops) = 19
    /\ ops[12] = "unscale" /\ ops[13] = "clip" /\ ops[14] = "optimizer_step"
    /\ ops[16] = "zero_grad" /\ ops[17] = "scheduler_step" /\ ops[19] = "on_batch_end"

(* C12: without the scaling policy every step() applies the optimizer update
   and then steps the scheduler: a single scheduler exactly once, every
   scheduler of a list exactly once and in list order; with no scheduler
   none is stepped and no error occurs. *)
C12_UnscaledStep ==
    (mixed_precision_mode = "off" /\ last_update.valid) =>
        LET n == Len(last_update.sched_before)
        IN  /\ ~last_update.scaled /\ last_update.applied
            /\ Len(last_update.sched_after) = n
            /\ \A i \in 1..n : last_update.sched_after[i] = last_update.sched_before[i] + 1
            /\ last_update.order = [i \in 1..n |-> i]
            /\ \A i \in DOMAIN sched_steps : sched_steps[i] = opt_steps
            /\ scheduler = "single" => n = 1
            /\ scheduler = "none" => n = 0 /\ error = "none"
            /\ last_op = "step" => pc = "batch_end"

C12_Witness ==
    /\ mixed_precision_mode = "off" /\ scheduler = "list"
    /\ last_op = "step"
    /\ opt_steps = 2
    /\ last_update.sched_before = <<1, 1>>
    /\ sched_steps = <<2, 2>>
    /\ last_update.order = <<1, 2>>

(* C13: with precision policy "bf16" no loss scaling is used: backward is not
   given a scaled loss, the optimizer is stepped directly without the scaler
   (no unscale, no scaler step, no scaler update), and no scale comparison
   can suppress the scheduler step. *)
C13_Bf16Unscaled ==
    mixed_precision_mode = "bf16" =>
        /\ scale_before_step = Rat(0)
        /\ scaler = NewScaler
        /\ last_update.valid =>
               /\ ~last_update.scaled
               /\ last_update.applied
               /\ scheduler # "none" => last_update.stepped
        /\ ~Has(ops, "unscale") /\ ~Has(ops, "scaler_update")

(* C14: the dispatch list of a fit call is the metric-smoothing callback
   first (the user's if the user gave one, else the injected one), then the
   progress bar if verbose, then the user's other callbacks in the order
   given, then the history callback; with verbose off, a smoothing callback
   followed by two user callbacks is dispatched as
   [smoothing, user1, user2, history] at every event. *)
C14_DispatchOrder ==
    Len(events) > 0 =>
        LET given     == SelectSeq(user_callbacks, IsSmooth)
            smoothing == IF Len(given) > 0 THEN <<given[1]>>
                         ELSE IF smooth_metrics_config THEN <<"smooth_default">>
                         ELSE <<>>
            progbar   == IF verbose THEN <<"progbar">> ELSE <<>>
            others    == SelectSeq(user_callbacks, LAMBDA c : ~IsSmooth(c))
        IN  /\ dispatched = smoothing \o progbar \o others \o <<"history">>
            /\ (~verbose /\ user_callbacks = <<"smooth_a", "user1", "user2">>)
                   => dispatched = <<"smooth_a", "user1", "user2", "history">>

C14_Witness ==
    /\ last_op = "on_batch_end"
    /\ ~verbose
    /\ user_callbacks = <<"user1", "smooth_a", "user2">>
    /\ dispatched = <<"smooth_a", "user1", "user2", "history">>

(* C15: when a callback sets stop_training during on_epoch_end of epoch k,
   k < E-1, fit emits no on_epoch_begin, on_batch_begin or on_batch_end of a
   later epoch, performs no further optimizer update, and still emits
   on_train_end exactly once before it returns. *)
C15_StopAtEpochEnd ==
    (stop_info.valid /\ stop_info.at = "on_epoch_end" /\ stop_info.epoch < epochs - 1) =>
        /\ \A i \in DOMAIN events :
               /\ events[i].name \in {"on_epoch_begin", "on_batch_begin", "on_batch_end"}
                      => events[i].epoch <= stop_info.epoch
               /\ i > stop_info.n_events => events[i].name = "on_train_end"
        /\ n_update = stop_info.n_update
        /\ pc \in {"train_end", "done"}
        /\ Count(events, "on_train_end") = (IF pc = "done" THEN 1 ELSE 0)

C15_Witness ==
    /\ stop_info.valid /\ stop_info.at = "on_epoch_end" /\ stop_info.epoch = 0
    /\ epochs = 2 /\ steps_per_epoch = 2
    /\ pc = "done"
    /\ n_update = 2
    /\ Count(events, "on_epoch_begin") = 1
    /\ events[Len(events)].name = "on_train_end"

(* C16: cancellation is only checked at the epoch boundary: when a callback
   sets stop_training during on_batch_begin, on_train_step_end or
   on_batch_end of a step of epoch k, every remaining step of epoch k is
   still executed with its optimizer update, on_epoch_end of epoch k fires,
   and only then does fit leave the epoch loop. *)
EpochSteps(evs, k) ==
    SelectSeq(evs, LAMBDA e : e.name = "on_batch_end" /\ e.epoch = k)

C16_StopInsideEpoch ==
    (/\ stop_info.valid
     /\ stop_info.at \in {"on_batch_begin", "on_train_step_end", "on_batch_end"}) =>
        LET k     == stop_info.epoch
            first == LoopStart(k, resume_epoch, resume_step)
            done  == EpochSteps(events, k)
        IN  /\ \A i \in DOMAIN events : i > stop_info.n_events => events[i].epoch = k
            /\ pc \in {"epoch_end", "train_end", "done"} =>
                   /\ Len(done) = steps_per_epoch - first
                   /\ \A i \in DOMAIN done : done[i].local_step = first + i - 1
                   /\ n_update = Len(BatchEnds(events))
            /\ pc \in {"train_end", "done"} =>
                   \E i \in DOMAIN events :
                       /\ events[i].name = "on_epoch_end" /\ events[i].epoch = k
                       /\ i > stop_info.n_events
                       /\ \A j \in DOMAIN events :
                              j > i => events[j].name = "on_train_end"
            /\ pc \notin {"except", "failed"}

C16_Witness ==
    /\ stop_info.valid /\ stop_info.at = "on_batch_begin"
    /\ stop_info.epoch = 0 /\ stop_info.local_step = 0
    /\ epochs = 2 /\ steps_per_epoch = 3
    /\ pc = "done"
    /\ n_update = 3
    /\ Count(events, "on_epoch_end") = 1 /\ Count(events, "on_epoch_begin") = 1

(* C17: each time the batch iterator is found exhausted during fit,
   on_dataloader_end fires exactly once, the iterator is rebuilt exactly
   once and the same fetch returns the first batch of the rebuilt iterator,
   so the step in progress still receives its A micro-batches and fit goes
   on; the number of on_dataloader_end events equals the number of
   exhaustions. *)
\* the k-th fetch of a fit finds an iterator over L batches exhausted when
\* k > 1 and k-1 is a multiple of L
Exhaustions(fetches, L) == IF fetches = 0 THEN 0 ELSE (fetches - 1) \div L

C17_Exhaustion ==
    (dataloader_len > 0 /\ fits >= 1) =>
        /\ Count(events, "on_dataloader_end") = Exhaustions(n_fetch, dataloader_len)
        /\ n_rebuild = Exhaustions(n_fetch, dataloader_len)
        /\ last_op = "on_dataloader_end" =>
               /\ iter_pos = 1
               /\ Len(ops) >= 1 /\ Has(ops, "fetch")
               /\ n_fetch = Exhaustions(n_fetch, dataloader_len) * dataloader_len + 1
        /\ last_op = "on_batch_end" =>
               Len(SelectSeq(ops, LAMBDA o : o = "fetch")) = grad_accumulation_steps
        /\ error # "StopIteration"

C17_Witness ==
    /\ last_op = "on_batch_end"
    /\ dataloader_len = 3 /\ grad_accumulation_steps = 2
    /\ n_fetch = 4 /\ n_update = 2 /\ n_rebuild = 1
    /\ events[Len(events) - 2].name = "on_dataloader_end"
    /\ events[Len(events) - 3].name = "on_train_step_end"

(* C18: when the rebuilt iterator is exhausted at its first fetch as well
   (an empty data source), fit fails with an error instead of retrying or
   looping: on_dataloader_end has fired exactly once for that fetch, the
   step in progress gets no optimizer update and no on_batch_end, and
   on_train_end is not emitted. *)
C18_EmptySource ==
    /\ []((dataloader_len = 0 /\ error = "StopIteration" /\ pc # "idle") =>
             /\ pc \in {"except", "failed"}
             /\ Count(events, "on_dataloader_end") = 1
             /\ n_rebuild = 1
             /\ events[Len(events)].name = "on_dataloader_end"
             /\ n_update = 0
             /\ Count(events, "on_batch_end") = 0
             /\ Count(events, "on_train_end") = 0
             /\ pc = "failed" => raised # "none")
    /\ [][(pc = "fetch" /\ dataloader_len = 0)
             => (pc' = "except" /\ error' = "StopIteration")]_vars
    /\ [][pc = "except" => pc' = "failed"]_vars

C18_Witness ==
    /\ dataloader_len = 0 /\ pc = "failed"
    /\ error = "StopIteration" /\ raised = "StopIteration"
    /\ Count(events, "on_dataloader_end") = 1
    /\ Count(events, "on_batch_begin") = 1
    /\ n_update = 0

(* C19: when steps_per_epoch is not given, fit sets it to
   ceil(len(dataloader) / grad_accumulation_steps) and total_steps to
   steps_per_epoch * epochs; when it is not given and the data source has no
   declared length, fit fails with a configuration error before any callback
   event is emitted. *)
CeilDiv(n, d) == (n + d - 1) \div d

C19_DerivedSteps ==
    (arg_steps = NoneInt /\ ~fresh) =>
        IF has_len
        THEN /\ steps_per_epoch = CeilDiv(dataloader_len, grad_accumulation_steps)
             /\ total_steps = steps_per_epoch * arg_epochs
        ELSE /\ pc \in {"except", "failed"}
             /\ error = "AssertionError"
             /\ events = <<>>

(* C20: whenever an error is raised inside the fit body, the error that
   propagates out of fit is that original error, unchanged, for every
   combination of configured diagnostics (error email, fallback checkpoint,
   last-batch dump) and whether each diagnostic succeeds or fails. *)
C20_OriginalErrorPropagates ==
    pc = "failed" => raised = error

(* C21: on an error in the fit body every configured diagnostic (error
   email, fallback checkpoint, last-batch dump) is attempted exactly once,
   whether or not another diagnostic failed, and a diagnostic that is not
   configured is not attempted. *)
C21_DiagnosticsIndependent ==
    pc = "failed" =>
        attempted = Attempts(mail_receivers_when_error, save_ckpt_when_error,
                             save_batch_path_when_error)

(* C24: train_step turns the criterion's result into (loss, detail): a
   tensor gives an empty detail, a dict gives its entries other than loss, a
   tuple gives loss1.. for the elements after the first; any other result
   fails with a TypeError before any backward pass or optimizer update. *)
C24_LossShapes ==
    /\ (pc = "train_step_end" /\ last_op = "fetch") =>
          /\ \E l \in criterion.values : loss = NormLoss(l, grad_accumulation_steps)
          /\ DOMAIN loss_detail =
                (CASE criterion.shape = "tensor" -> {}
                   [] criterion.shape = "dict"   -> {"aux"}
                   [] criterion.shape = "tuple"  -> {"loss1"})
          /\ \A k \in DOMAIN loss_detail :
                \E a \in criterion.values :
                    loss_detail[k] = NormDetail(a, grad_accumulation_steps)
    /\ (criterion.shape = "invalid" /\ n_forward > 0 /\ pc \in {"except", "failed"}) =>
          /\ error = "TypeError"
          /\ ~Has(ops, "backward")
          /\ n_update = 0

(* C25: the log record is rebuilt at the start of every step and carried by
   reference through the step: on_batch_begin and on_batch_end of one step
   are handed the same object, the record handed to on_batch_end holds loss
   and lr and whatever the callbacks added at on_batch_begin, and a key a
   callback added during one step is absent from the record handed to the
   next step's on_batch_begin. *)
C25_LogRecord ==
    \A i \in DOMAIN log_seen :
        LET s == log_seen[i]
        IN  IF s.name = "on_batch_begin"
            THEN /\ "tag" \notin s.given
                 /\ "loss" \notin s.given
                 /\ \A j \in 1..(i - 1) : log_seen[j].id # s.id
            ELSE /\ i > 1
                 /\ log_seen[i - 1].name = "on_batch_begin"
                 /\ log_seen[i - 1].id = s.id
                 /\ log_seen[i - 1].left \subseteq s.given
                 /\ {"loss", "lr"} \subseteq s.given

C25_Witness ==
    /\ Has(callbacks, "tag")
    /\ Len(log_seen) = 4
    /\ "tag" \in log_seen[2].given
    /\ "tag" \in log_seen[2].left
    /\ "tag" \notin log_seen[3].given
    /\ log_seen[4].name = "on_batch_end"

----------------------------------------------------------------------------
(* The trainer outside fit: a compiled trainer on which no fit runs *)
FitIdle ==
    InitWith([epochs |-> 1, steps |-> 1, accum |-> 1, len |-> MaxLen,
              mode |-> "off", sched |-> "none", cbs |-> <<>>,
              shape |-> "tensor", losses |-> {1}, ckpt |-> FALSE,
              clip |-> FALSE, smooth |-> TRUE, verbose |-> FALSE,
              has_len |-> TRUE, mail |-> FALSE, dump |-> FALSE,
              sampler |-> FALSE])

(* Checkpoint runs: training, compile with or without a scheduler,
   save_to_checkpoint and resume_from_checkpoint in any order. *)
CkptInit ==
    /\ FitIdle
    /\ CkptIdle
    /\ RegIdle
    /\ DsIdle
    /\ DdpIdle

\* a fit: model, optimizer and scheduler move on, steps_per_epoch is set
CkTrain ==
    /\ ck_ops < MaxCkptOps
    /\ ck_ops' = ck_ops + 1
    /\ ck_progress' = ck_progress + 1
    /\ ck_mem' = [a \in Artifacts |->
                     IF a = "steps_params" \/ (a = "scheduler" /\ ~ck_scheduler)
                     THEN ck_mem[a] ELSE ck_progress']
    /\ ck_fitted' = TRUE
    /\ ck_call' = NoCall
    /\ UNCHANGED <<ck_disk, ck_scheduler, ck_list>>
    /\ UNCHANGED <<fitVars, regVars, dsVars, ddpVars>>

\* compile(scheduler=...) with another scheduler argument: none, a single
\* scheduler or a list of schedulers
CkCompile ==
    /\ ck_ops < MaxCkptOps
    /\ ck_ops' = ck_ops + 1
    /\ \E has \in BOOLEAN, lst \in BOOLEAN :
           /\ lst => has
           /\ <<has, lst>> # <<ck_scheduler, ck_list>>
           /\ ck_scheduler' = has
           /\ ck_list' = lst
    /\ ck_call' = NoCall
    /\ UNCHANGED <<ck_mem, ck_disk, ck_fitted, ck_progress>>
    /\ UNCHANGED <<fitVars, regVars, dsVars, ddpVars>>

CkCall(op, args, run) ==
    /\ ck_ops < MaxCkptOps
    /\ ck_ops' = ck_ops + 1
    /\ ck_mem' = run.mem
    /\ ck_disk' = run.disk
    /\ ck_call' = [op |-> op, args |-> args, outcome |-> run.outcome,
                   touched |-> run.touched, mem_before |-> ck_mem,
                   disk_before |-> ck_disk, has_scheduler |-> ck_scheduler,
                   is_list |-> ck_list]
    /\ UNCHANGED <<ck_scheduler, ck_list, ck_fitted, ck_progress>>
    /\ UNCHANGED <<fitVars, regVars, dsVars, ddpVars>>

SaveToCheckpoint ==
    \E args \in CkptArgs :
        CkCall("save", args,
               SaveRun(args, ck_mem, ck_disk, ck_scheduler, ck_list, ck_fitted, ck_progress))

ResumeFromCheckpoint ==
    \E args \in CkptArgs :
        CkCall("resume", args,
               ResumeRun(1, args, ck_mem, ck_disk, ck_scheduler, ck_list, {}))

CkptNext ==
    \/ CkTrain \/ CkCompile \/ SaveToCheckpoint \/ ResumeFromCheckpoint

CkptSpec == CkptInit /\ [][CkptNext]_vars

(* C22: the four checkpoint artifacts are handled independently.  A call
   of save_to_checkpoint or resume_from_checkpoint with one explicit path and
   no save_dir writes or reads that artifact's file only, and leaves every
   other file and every other component as it was; with save_dir every
   artifact goes to its default file under the directory, except the one
   whose explicit path is given. *)
NamedFile(a, args) ==
    <<a, IF args.explicit = a /\ args.where = "other" THEN "other" ELSE "default">>

C22_ArtifactsIndependent ==
    ck_call.op # "none" =>
        LET c == ck_call
            one == c.args.explicit
        IN  /\ c.op = "save" => ck_mem = c.mem_before
            /\ c.op = "resume" => ck_disk = c.disk_before
            /\ \A f \in Files \ c.touched : ck_disk[f] = c.disk_before[f]
            /\ (~c.args.save_dir /\ one # "none") =>
                  /\ c.touched \subseteq {NamedFile(one, c.args)}
                  /\ \A b \in Artifacts \ {one} : ck_mem[b] = c.mem_before[b]
            /\ (~c.args.save_dir /\ one = "none") => c.touched = {}
            /\ c.args.save_dir =>
                  /\ c.touched \subseteq {NamedFile(b, c.args) : b \in Artifacts}
                  /\ c.outcome = "ok" =>
                        c.touched = {NamedFile(b, c.args) :
                                        b \in {x \in Artifacts :
                                                 x = "scheduler" => c.has_scheduler}}

C22_Witness ==
    /\ ck_call.op = "resume"
    /\ ~ck_call.args.save_dir
    /\ ck_call.args.explicit = "optimizer" /\ ck_call.args.where = "other"
    /\ ck_call.outcome = "ok"
    /\ ck_call.touched = {<<"optimizer", "other">>}
    /\ ck_mem["optimizer"] = 0 /\ ck_call.mem_before["optimizer"] = 1
    /\ ck_mem["model"] = 1

(* C32: when the scheduler is an ordered list of schedulers,
   save_to_checkpoint(save_dir=d) after a fit succeeds and writes the
   schedulers' state, and resume_from_checkpoint(save_dir=d) on a directory
   that holds all four files succeeds and restores the schedulers to the
   state saved. *)
C32_SchedulerListRoundTrip ==
    (/\ ck_call.op # "none"
     /\ ck_call.args.save_dir /\ ck_call.args.explicit = "none"
     /\ ck_call.has_scheduler /\ ck_call.is_list) =>
        /\ (ck_call.op = "save" /\ ck_fitted) =>
               /\ ck_call.outcome = "ok"
               /\ ck_disk[<<"scheduler", "default">>] = ck_call.mem_before["scheduler"]
        /\ (/\ ck_call.op = "resume"
            /\ \A a \in Artifacts : ck_call.disk_before[<<a, "default">>] # Absent) =>
               /\ ck_call.outcome = "ok"
               /\ ck_mem["scheduler"] = ck_call.disk_before[<<"scheduler", "default">>]

(* C23: resume_from_checkpoint(save_dir=d) completes without error when the
   file of an artifact other than the model weights is missing from d: the
   artifacts whose files exist are restored, and a component whose file is
   missing keeps its state. *)
C23_MissingFileTolerated ==
    (/\ ck_call.op = "resume" /\ ck_call.args.save_dir /\ ck_call.args.explicit = "none"
     /\ ck_call.disk_before[<<"model", "default">>] # Absent) =>
        /\ ck_call.outcome = "ok"
        /\ \A a \in Artifacts :
              ck_mem[a] =
                 IF /\ ck_call.disk_before[<<a, "default">>] # Absent
                    /\ a = "scheduler" => ck_call.has_scheduler
                 THEN ck_call.disk_before[<<a, "default">>]
                 ELSE ck_call.mem_before[a]

----------------------------------------------------------------------------
(* compile called with every form of the metrics argument *)
RegInit ==
    /\ FitIdle
    /\ CkptIdle
    /\ RegIdle
    /\ DsIdle
    /\ DdpIdle

Compile ==
    \E arg \in MetricsArgs :
        LET r == RegisterAll(NewMetrics, arg.items)
        IN  /\ metrics' = r.od
            /\ compile_raised' = r.raised
            /\ metrics_arg' = arg
            /\ UNCHANGED <<fitVars, ckptVars, dsVars, ddpVars>>

RegNext == Compile

RegSpec == RegInit /\ [][RegNext]_vars

(* C26: after any compile call, whatever the metrics argument (a string, a
   dict, a function or a list of these, entries named loss included), the
   registry holds the key loss with no function, and its keys stand in the
   order of their first registration, loss first. *)
RECURSIVE Mentioned(_)
Mentioned(items) ==
    IF items = <<>> THEN <<>>
    ELSE LET e == Head(items)
         IN  (IF e.kind = "dict" THEN [i \in DOMAIN e.items |-> e.items[i][1]]
              ELSE <<e.name>>) \o Mentioned(Tail(items))

RECURSIVE FirstSeen(_, _)
FirstSeen(ks, seen) ==
    IF ks = <<>> THEN <<>>
    ELSE IF Head(ks) \in seen THEN FirstSeen(Tail(ks), seen)
    ELSE <<Head(ks)>> \o FirstSeen(Tail(ks), seen \cup {Head(ks)})

C26_LossFirst ==
    (\A i \in DOMAIN metrics_arg.items : metrics_arg.items[i].kind # "other") =>
        /\ ~compile_raised
        /\ metrics[1] = Item("loss", "none")
        /\ [i \in DOMAIN metrics |-> metrics[i][1]]
              = FirstSeen(<<"loss">> \o Mentioned(metrics_arg.items), {})

----------------------------------------------------------------------------
(* DeepSpeedArgs on every configuration file: one call of fill_match, or
   trainer_config_process *)
DsInit ==
    /\ FitIdle
    /\ CkptIdle
    /\ RegIdle
    /\ DdpIdle
    /\ \E f \in DsFiles :
          /\ ds_config = f.cfg
          /\ ds_nodes = f.nodes
    /\ ds_stage \in {2, 3}
    /\ ds_hidden \in {"hidden_size", "neither"}
    /\ mismatches = <<>>
    /\ ds_call = NoDsCall

DsCall(call, c, outcome) ==
    /\ ds_call.op = "none"
    /\ ds_config' = c.cfg
    /\ mismatches' = c.mismatches
    /\ ds_call' = [call EXCEPT !.outcome = outcome, !.cfg_before = ds_config,
                               !.mismatches_before = mismatches]
    /\ UNCHANGED <<ds_nodes, ds_stage, ds_hidden>>
    /\ UNCHANGED <<fitVars, ckptVars, regVars, ddpVars>>

DsState == [cfg |-> ds_config, nodes |-> ds_nodes, mismatches |-> mismatches]

FillMatchCall ==
    \E key \in DsKeys, val \in {"local", "other"}, must_match \in BOOLEAN :
        DsCall([op |-> "fill_match", key |-> key, val |-> val, must_match |-> must_match,
                outcome |-> "", cfg_before |-> <<>>, mismatches_before |-> <<>>],
               FillMatch(DsState, key, val, must_match), "ok")

TrainerConfigProcess ==
    \E auto_find_batch_size \in BOOLEAN :
        LET r == ConfigProcess(DsState, ds_stage, ds_hidden, auto_find_batch_size)
        IN  DsCall([op |-> "trainer_config_process", auto_find_batch_size |-> auto_find_batch_size,
                    outcome |-> "", cfg_before |-> <<>>, mismatches_before |-> <<>>],
                   r.c, r.outcome)

DsNext == FillMatchCall \/ TrainerConfigProcess

DsSpec == DsInit /\ [][DsNext]_vars

(* C27: fill_match on a key whose parent node exists replaces "auto" by the
   local value and records no mismatch; any other configured value is left
   as it is, and a mismatch entry (key, configured value, local value) is
   recorded exactly when must_match is true, a value is configured and it
   differs from the local value; no error is raised; when a parent node is
   missing nothing changes. *)
C27_FillMatch ==
    ds_call.op = "fill_match" =>
        LET c == ds_call
            was == c.cfg_before[c.key]
        IN  /\ c.outcome = "ok"
            /\ \A k \in DsKeys \ {c.key} : ds_config[k] = c.cfg_before[k]
            /\ IF ~(c.key[1] = Root \/ c.key[1] \in ds_nodes)
               THEN ds_config = c.cfg_before /\ mismatches = c.mismatches_before
               ELSE IF was = "auto"
               THEN ds_config[c.key] = c.val /\ mismatches = c.mismatches_before
               ELSE /\ ds_config[c.key] = was
                    /\ mismatches =
                          IF c.must_match /\ was # "none" /\ was # c.val
                          THEN Append(c.mismatches_before,
                                      [ds_name |-> c.key, ds_value |-> was, b4t_value |-> c.val])
                          ELSE c.mismatches_before

C27_Witness ==
    /\ ds_call.op = "fill_match"
    /\ ds_call.key = <<"optimizer.params", "lr">>
    /\ ds_call.cfg_before[ds_call.key] = "other"
    /\ ds_call.must_match
    /\ Len(mismatches) = 1
    /\ mismatches[1].ds_value = "other" /\ mismatches[1].b4t_value = "local"

(* C28: once trainer_config_process has completed, none of the fields it is
   responsible for still holds "auto": batch sizes, gradient accumulation
   and clipping, the optimizer's lr, betas, eps and weight_decay, the
   scheduler's warmup_min_lr, warmup_max_lr, total_num_steps and
   warmup_num_steps, the fp16, amp and bf16 enabled flags and the
   hidden-size-based zero_optimization sizes. *)
C28_NoAutoLeft ==
    (ds_call.op = "trainer_config_process" /\ ds_call.outcome = "ok") =>
        \A k \in DsKeys \ {<<"amp", "opt_level">>} : ds_config[k] # "auto"

----------------------------------------------------------------------------
(* A distributed run: every rank calls fit with the same arguments and runs
   its own loop; a stopping callback decides on the rank where its hooks run *)
DdpInit ==
    /\ FitIdle
    /\ CkptIdle
    /\ RegIdle
    /\ DsIdle
    /\ master_rank \in MasterRanks
    /\ ddp_callbacks \in {<<"user1">>, <<"stop">>, <<"user1", "stop">>}
    /\ ddp_disabled \in BOOLEAN
    /\ ddp_epochs \in 1..MaxEpochs
    /\ ddp_steps \in 1..MaxSteps
    /\ proc = [r \in Ranks |-> NewProc]

DdpFrame ==
    /\ UNCHANGED <<master_rank, ddp_callbacks, ddp_disabled, ddp_epochs, ddp_steps>>
    /\ UNCHANGED <<fitVars, ckptVars, regVars, dsVars>>

\* fit on rank r up to the first step: _prepare_callbacks builds the list
\* (smoothing callback from compile's default smooth_interval) and clears
\* stop_training
DdpFit(r) ==
    /\ proc[r].pc = "idle"
    /\ proc' = [proc EXCEPT ![r] =
          [@ EXCEPT !.callbacks = PrepareCallbacks(ddp_callbacks, TRUE,
                                                   DdpVerbose(r, master_rank)),
                    !.off = SwitchedOff(r, master_rank, ddp_callbacks, ddp_disabled),
                    !.stop_training = FALSE,
                    !.pc = IF RangeHas(0, ddp_epochs) /\ RangeHas(0, ddp_steps)
                           THEN "batch_begin" ELSE "left"]]
    /\ DdpFrame

\* one pass of the step loop on rank r: on_batch_begin, the optimizer step,
\* on_batch_end
DdpStep(r) ==
    /\ proc[r].pc = "batch_begin"
    /\ proc' = [proc EXCEPT ![r] =
          [@ EXCEPT !.steps = @ + 1,
                    !.local = @ + 1,
                    !.ran = @ \cup Running(proc[r]),
                    !.pc = AfterBatchEnd(proc[r].stop_training, proc[r].local + 1, ddp_steps)]]
    /\ DdpFrame

\* on_epoch_end on rank r, where a stopping callback that runs may set
\* stop_training, then `if callback_trainer.stop_training: break`
DdpEpochEnd(r) ==
    /\ proc[r].pc = "epoch_end"
    /\ \E stop \in (IF "stop" \in Running(proc[r]) THEN BOOLEAN ELSE {FALSE}) :
          LET stopped == proc[r].stop_training \/ stop
              next == AfterEpochEnd(stopped, proc[r].epoch + 1, ddp_epochs)
          IN  proc' = [proc EXCEPT ![r] =
                 [@ EXCEPT !.stop_training = stopped,
                           !.ran = @ \cup Running(proc[r]),
                           !.per_epoch = Append(@, proc[r].local),
                           !.epoch = IF next = "epoch_begin" THEN @ + 1 ELSE @,
                           !.local = 0,
                           !.pc = IF next = "epoch_begin" THEN "batch_begin" ELSE "left"]]
    /\ DdpFrame

DdpNext == \E r \in Ranks : DdpFit(r) \/ DdpStep(r) \/ DdpEpochEnd(r)

DdpSpec == DdpInit /\ [][DdpNext]_vars

(* C29: in a distributed run every worker executes the same number of
   optimizer steps in every epoch and in total, so that no worker has left
   its loop while another one still has a step to execute; also when a
   stopping callback runs on the master rank only, the callbacks being
   switched off on the other ranks.  Stated for that case: one master rank
   and disable_workers_callback called on the user's callbacks. *)
OneDispatcherSetup == ddp_disabled /\ Cardinality(master_rank) = 1

C29_SameSteps ==
    OneDispatcherSetup =>
    \A p, q \in Ranks :
        /\ \A e \in DOMAIN proc[p].per_epoch \cap DOMAIN proc[q].per_epoch :
              proc[p].per_epoch[e] = proc[q].per_epoch[e]
        /\ proc[p].pc = "left" =>
              /\ proc[q].pc = "left" => proc[q].steps = proc[p].steps
              /\ proc[q].pc = "batch_begin" => proc[q].steps < proc[p].steps
              /\ proc[q].pc = "epoch_end" => proc[q].steps <= proc[p].steps

(* C30: in a distributed run the callbacks' side effects happen in one
   process: at most one worker executes hooks of the registered callbacks
   (the user's and the ones fit adds), and on every other worker dispatch is
   off while the registered list is kept.  Stated for a run with one master
   rank in which disable_workers_callback was called. *)
C30_SingleDispatcher ==
    OneDispatcherSetup =>
    /\ Cardinality({r \in Ranks : proc[r].ran # {}}) <= 1
    /\ \A r \in Ranks :
          (proc[r].pc # "idle" /\ r \notin master_rank) =>
             /\ Running(proc[r]) = {}
             /\ Len(proc[r].callbacks) >= Len(ddp_callbacks) + 1

(* C40: stop_training is reset to False when fit builds its callback list,
   before on_train_begin: a flag left True by an earlier fit call does not
   shorten the new run, and only a value set by a callback during the current
   fit ends it early. *)
C40_StopReset ==
    /\ pc = "train_begin" => ~stop_training
    /\ (InFitView /\ stop_training) => stop_info.valid
    /\ (pc = "done" /\ last_op = "on_train_end" /\ ~stop_info.valid)
           => /\ ~broke_early
              /\ Count(events, "on_epoch_begin") = Max(0, epochs - resume_epoch)

C40_Witness ==
    /\ pc = "done" /\ last_op = "on_train_end"
    /\ fits = 2 /\ ~fit_fresh
    /\ epochs = 2 /\ resume_epoch = 0
    /\ Count(prev_events, "on_epoch_begin") = 1
    /\ Count(prev_events, "on_train_end") = 1
    /\ ~stop_info.valid /\ ~stop_training
    /\ Count(events, "on_epoch_begin") = 2

(* C39: global_step observed at consecutive on_batch_end events of one fit
   call increases by exactly 1, across epoch boundaries too, and the first
   value equals resume_epoch * steps_per_epoch + resume_step. *)
C39_GlobalStepConsecutive ==
    InFitView =>
        LET be == BatchEnds(events)
        IN  /\ Len(be) >= 1
                => be[1].global_step = resume_epoch * steps_per_epoch + resume_step
            /\ \A j \in 1..(Len(be) - 1) :
                   be[j + 1].global_step = be[j].global_step + 1

C39_Witness ==
    /\ pc = "done" /\ last_op = "on_train_end"
    /\ loaded.valid /\ resume_epoch = 0 /\ resume_step = 2
    /\ epochs = 2 /\ steps_per_epoch = 3
    /\ LET be == BatchEnds(events)
       IN  /\ Len(be) = 4
           /\ be[1].global_step = 2 /\ be[1].epoch = 0
           /\ be[2].global_step = 3 /\ be[2].epoch = 1
           /\ be[4].global_step = 5

(* C38: every callback the user passes to fit appears exactly once in the
   dispatch list built for that fit, none dropped and none duplicated, also
   when more than one of them is a metric-smoothing callback. *)
Occurrences(seq, x) == Cardinality({i \in DOMAIN seq : seq[i] = x})

C38_EveryUserCallbackOnce ==
    Len(events) > 0 =>
        \A i \in DOMAIN user_callbacks :
            Occurrences(dispatched, user_callbacks[i]) = 1

(* C37: after every successful batch fetch, batch_step equals the number of
   batches taken so far from the current iterator, whether that iterator was
   created at fit entry, rebuilt after exhaustion, or created by a later fit
   call on the same trainer. *)
C37_BatchStepIsPosition ==
    pc = "train_step_end" => batch_step = iter_pos

(* C35: whenever resume counters are recorded during a run, from any
   callback hook or from fit's error handler after a step failed, they name
   the earliest step whose optimizer update has not been applied: no
   completed step is repeated and no uncompleted step is skipped. *)
RecordedStart(info) ==
    LET p == StepParams(info.local_step, info.epoch, info.steps_per_epoch)
    IN  GlobalStepOf(p.resume_epoch, info.steps_per_epoch, p.resume_step)

C35_ResumePointIsNextStep ==
    (InFitView /\ save_info.valid /\ save_info.fit = fits) =>
        RecordedStart(save_info)
            = GlobalStepOf(resume_epoch, steps_per_epoch, resume_step) + save_info.done

(* C31: in every fit call with verbose on and loss2metrics enabled, the
   loss-detail keys are registered with the progress renderer exactly once,
   at the first step that fit executes, and never at a later step, for every
   resume position. *)
BatchBegins(evs) == SelectSeq(evs, LAMBDA e : e.name = "on_batch_begin")

C31_DetailKeysRegisteredOnce ==
    (InFitView /\ verbose /\ loss2metrics /\ n_update >= 1) =>
        registered = <<BatchBegins(events)[1].global_step>>

(* C34: when steps_per_epoch is derived from the dataloader length (not
   passed to fit), the same local_step consumes the same positions of the
   dataloader's iteration order in every epoch, for every dataloader length
   and every accumulation factor; checked on runs that start at step 0. *)
C34_SamePositionsEveryEpoch ==
    (InFitView /\ arg_steps = NoneInt /\ resume_epoch = 0 /\ resume_step = 0) =>
        \A i, j \in DOMAIN fetch_log :
            (/\ fetch_log[i].local_step = fetch_log[j].local_step
             /\ fetch_log[i].micro = fetch_log[j].micro)
                => fetch_log[i].pos = fetch_log[j].pos

(* C36: a run resumed from saved counters over the same dataloader fetches,
   at each global_step, the same dataloader positions that the uninterrupted
   run fetches at that global_step: the batches consumed by the steps
   completed before the checkpoint are not fetched again.  The uninterrupted
   run is the previous fit call, started at step 0 on a new trainer and run to
   the end, during which the counters were saved. *)
ResumedAfterFullRun ==
    /\ InFitView /\ fits = 2 /\ fit_fresh
    /\ loaded.valid /\ loaded.fit = 1 /\ loaded.at = "on_batch_end"
    /\ Len(BatchEnds(prev_events)) = epochs * steps_per_epoch

C36_ResumedFetchesSamePositions ==
    ResumedAfterFullRun =>
        \A i \in DOMAIN fetch_log :
            \E j \in DOMAIN prev_fetch_log :
                /\ prev_fetch_log[j].global_step = fetch_log[i].global_step
                /\ prev_fetch_log[j].micro = fetch_log[i].micro
                /\ prev_fetch_log[j].pos = fetch_log[i].pos

(* C33: whenever the iterator is exhausted and rebuilt while the data source
   has a distributed sampler, set_epoch is called exactly once, after
   on_dataloader_end and before the new iterator is created, with a value
   different from the sampler epoch used for the pass that was just
   exhausted, so two consecutive passes never use the same shuffle seed. *)
C33_ReseedEveryPass ==
    (InFitView /\ dist_sampler /\ dataloader_len > 0) =>
        /\ Len(set_epoch_log) = n_rebuild
        /\ \A j \in DOMAIN set_epoch_log :
               /\ set_epoch_log[j].ends = j
               /\ set_epoch_log[j].iters = j
               /\ set_epoch_log[j].value # pass_log[j]
        /\ \A j \in 1..(Len(pass_log) - 1) : pass_log[j + 1] # pass_log[j]

============================================================================
